---- MODULE Spec2Model ----
(***************************************************************************)
(* commons-codec: translation of CDC events into SQL operations.           *)
(*                                                                         *)
(* The module models the record-to-SQL translators of                      *)
(* commons_codec.transform (aws_dms.py, dynamodb.py) together with the     *)
(* value objects of commons_codec.model they use.                          *)
(*                                                                         *)
(* Encoding of Python values:                                              *)
(*   - a dict with string keys is a sequence of <<key, value>> pairs, in   *)
(*     insertion order, with pairwise distinct keys;                       *)
(*   - a dict keyed by TableAddress is a function whose DOMAIN is the set  *)
(*     of keys present;                                                    *)
(*   - a scalar is a record [t |-> type name, v |-> text of the value];    *)
(*   - None in a string-typed slot is the string "None" (which is also     *)
(*     what an f-string renders for it).                                   *)
(*                                                                         *)
(* A record constructor lists its fields in the order in which the names   *)
(* first appear in this module.  TLC sorts the fields of a record in       *)
(* place, by that order, when it first compares the record; written        *)
(* sorted, a record held by a state is never rearranged while a second     *)
(* worker reads it.                                                        *)
(***************************************************************************)
EXTENDS Integers, Sequences, FiniteSets, TLC

VARIABLES
    primary_keys,          \* DMSTranslatorCrateDB.primary_keys        : TableAddress -> list of column names
    column_types,          \* DMSTranslatorCrateDB.column_types        : TableAddress -> dict column -> ColumnType
    mapping_strategy,      \* DMSTranslatorCrateDB.mapping_strategy    : TableAddress -> strategy
    ignore_ddl,            \* DMSTranslatorCrateDB.ignore_ddl          : TableAddress -> bool
    primary_keys_caller,   \* DMSTranslatorCrateDB.primary_keys_caller : deep copy taken at construction
    column_types_caller,   \* DMSTranslatorCrateDB.column_types_caller : deep copy taken at construction
    pk_shared,             \* addresses a for which primary_keys[a] and primary_keys_caller[a] are one list object
    primary_keys_supplied, \* the primary_keys argument as it was when the translator was constructed
    column_types_supplied, \* the column_types argument as it was when the translator was constructed
    event_in,              \* the event as the caller passed it to the last to_sql call
    event,                 \* the same event object as the call left it
    outcome,               \* what the last to_sql call returned or raised
    threads,               \* per thread calling to_sql on the one translator: where it is in the call
    overlapped,            \* whether a to_sql call ever began while another was under way
    source_rows,           \* the rows of the source table whose changes DMS reports
    sink_rows,             \* the rows of the sink table on which the emitted statements are executed
    before_image,          \* the before-image section of the event passed last
    set_order,             \* the order in which this process iterates over the elements of a set
    ddb_event_in,          \* the event as the caller passed it to the last DynamoDBCDCTranslator.to_sql call
    ddb_event,             \* the same event object as the call left it
    ddb_outcome,           \* what the last DynamoDBCDCTranslator.to_sql call returned or raised
    ddb_outcome_first,     \* when that call was passed the event of the call before it: the outcome of the call before
    ddb_key_schema,        \* the key schema argument of the last DynamoDBFullLoadTranslator(...) call
    ddb_translator,        \* what that constructor call returned or raised
    ddb_ddl_outcome,       \* what the last read of that translator's sql_ddl returned or raised
    mdb_event_in,          \* the event passed to the last MongoDBCDCTranslator.to_sql call
    mdb_outcome,           \* what the last MongoDBCDCTranslator.to_sql call returned or raised
    cv_instant,            \* the instant the value below denotes: whole seconds since the epoch, and milliseconds
    cv_value,              \* the Extended JSON value passed to MongoDBCrateDBConverter.decode_document
    cv_result,             \* what that call returned
    cm_call,               \* the function of commons_codec.model called last
    ur_record,             \* the record passed to the last UniversalRecord.from_record call
    ur_keys,               \* the primary_keys passed to it
    ur_result,             \* the UniversalRecord it returned
    ctms_store,            \* the ColumnTypeMapStore whose to_json was called last
    ctms_argument,         \* what to_json returned, or what from_json or from_dict was passed last
    ctms_result,           \* what the last from_json or from_dict call returned or raised
    fqn_address,           \* the TableAddress whose fqn was read last
    fqn_outcome            \* what that read returned or raised

dms_store == <<primary_keys, column_types, mapping_strategy, ignore_ddl,
               primary_keys_caller, column_types_caller, pk_shared,
               primary_keys_supplied, column_types_supplied>>

vars == <<primary_keys, column_types, mapping_strategy, ignore_ddl,
          primary_keys_caller, column_types_caller, pk_shared,
          primary_keys_supplied, column_types_supplied,
          event_in, event, outcome, threads, overlapped,
          source_rows, sink_rows, before_image,
          set_order, ddb_event_in, ddb_event, ddb_outcome, ddb_outcome_first,
          ddb_key_schema, ddb_translator, ddb_ddl_outcome,
          mdb_event_in, mdb_outcome, cv_instant, cv_value, cv_result,
          cm_call, ur_record, ur_keys, ur_result,
          ctms_store, ctms_argument, ctms_result,
          fqn_address, fqn_outcome>>

dms_vars == <<primary_keys, column_types, mapping_strategy, ignore_ddl,
              primary_keys_caller, column_types_caller, pk_shared,
              primary_keys_supplied, column_types_supplied,
              event_in, event, outcome, threads, overlapped,
              source_rows, sink_rows, before_image>>

th_vars == <<threads, overlapped>>

sink_vars == <<source_rows, sink_rows, before_image>>

ddb_cdc_vars == <<set_order, ddb_event_in, ddb_event, ddb_outcome, ddb_outcome_first>>

ddb_full_vars == <<ddb_key_schema, ddb_translator, ddb_ddl_outcome>>

ddb_vars == <<ddb_cdc_vars, ddb_full_vars>>

cv_vars == <<cv_instant, cv_value, cv_result>>

mdb_vars == <<mdb_event_in, mdb_outcome, cv_vars>>

ur_vars == <<ur_record, ur_keys, ur_result>>

ctms_vars == <<ctms_store, ctms_argument, ctms_result>>

ta_vars == <<fqn_address, fqn_outcome>>

cm_vars == <<cm_call, ur_vars, ctms_vars, ta_vars>>

-----------------------------------------------------------------------------
(* Bounds *)

\* Longest primary-key array a control event declares.
MaxPkLen == 2

-----------------------------------------------------------------------------
(* Python helpers *)

\* Scalars.
PyNone == [t |-> "NoneType", v |-> "None"]
PyInt(text) == [t |-> "int", v |-> text]
PyStr(text) == [t |-> "str", v |-> text]
PyDict(text) == [t |-> "dict", v |-> text]

None == "None"

\* Truthiness of an Optional[str].
truthy(s) == s # None /\ s # ""

startswith(s, prefix) == Len(s) >= Len(prefix) /\ SubSeq(s, 1, Len(prefix)) = prefix

Range(s) == {s[i] : i \in 1..Len(s)}

\* dict with string keys
DictKeys(d) == [i \in 1..Len(d) |-> d[i][1]]

DictHas(d, k) == \E i \in 1..Len(d) : d[i][1] = k

DictGet(d, k, default) ==
    IF DictHas(d, k) THEN d[CHOOSE i \in 1..Len(d) : d[i][1] = k][2] ELSE default

DictSet(d, k, v) ==
    IF DictHas(d, k)
    THEN [i \in 1..Len(d) |-> IF d[i][1] = k THEN <<k, v>> ELSE d[i]]
    ELSE Append(d, <<k, v>>)

\* dict.update(other)
RECURSIVE DictUpdate(_, _)
DictUpdate(d, other) ==
    IF other = <<>> THEN d
    ELSE DictUpdate(DictSet(d, other[1][1], other[1][2]), Tail(other))

\* toolz.dissoc(d, *keys)
dissoc(d, keys) == SelectSeq(d, LAMBDA item : item[1] \notin keys)

\* dict keyed by TableAddress
setdefault(d, k, v) ==
    IF k \in DOMAIN d THEN d ELSE [a \in DOMAIN d \cup {k} |-> IF a = k THEN v ELSE d[a]]

StoreGet(d, k, default) == IF k \in DOMAIN d THEN d[k] ELSE default

StoreSet(d, k, v) == [a \in DOMAIN d \cup {k} |-> IF a = k THEN v ELSE d[a]]

\* str.join
RECURSIVE Join(_, _)
Join(items, delimiter) ==
    IF items = <<>> THEN ""
    ELSE IF Len(items) = 1 THEN items[1]
    ELSE items[1] \o delimiter \o Join(Tail(items), delimiter)

\* json.loads on the texts the model feeds it; ok = FALSE is JSONDecodeError.
json_loads(text) ==
    IF text = "{\"foo\": \"bar\"}" THEN [ok |-> TRUE, value |-> PyDict("{'foo': 'bar'}")]
    ELSE IF text = "42" THEN [ok |-> TRUE, value |-> PyInt("42")]
    ELSE [ok |-> FALSE, value |-> PyNone]

-----------------------------------------------------------------------------
(* commons_codec.model *)

\* TableAddress(schema, table)
TableAddress(schema, table) == <<schema, table>>

\* TableAddress.fqn; quote_relation_name leaves plain lower-case identifiers
\* (all the model uses) unquoted.  ok = FALSE is the ValueError.
fqn_unchecked(address) == [text |-> address[1] \o "." \o address[2], ok |-> TRUE]

fqn(address) ==
    IF ~truthy(address[1])
    THEN [text |-> "Unable to compute a full-qualified table name without schema name", ok |-> FALSE]
    ELSE [text |-> address[1] \o "." \o address[2], ok |-> TRUE]

\* SQLParameterizedClause()
EmptyClause == [lvals |-> <<>>, rvals |-> <<>>, values |-> <<>>]

\* SQLParameterizedClause.add(lval, value, name)
clause_add(clause, lval, value, name) ==
    [lvals |-> Append(clause.lvals, lval),
     rvals |-> Append(clause.rvals, ":" \o name),
     values |-> DictSet(clause.values, name, value)]

\* SQLParameterizedClause.render(delimiter)
render(clause, delimiter) ==
    Join([i \in 1..Len(clause.lvals) |-> clause.lvals[i] \o "=" \o clause.rvals[i]], delimiter)

render_lvals(clause) ==
    Join([i \in 1..Len(clause.lvals) |-> "\"" \o clause.lvals[i] \o "\""], ", ")

render_rvals(clause) == Join(clause.rvals, ", ")

\* UniversalRecord(pk, typed, untyped).to_dict()
UniversalRecord(pk, typed, untyped) == [pk |-> pk, typed |-> typed, untyped |-> untyped]

NoUniversalRecord == UniversalRecord(<<>>, <<>>, <<>>)

\* UniversalRecord.from_record(record, primary_keys).to_dict()
from_record(record, keys) ==
    LET pk == SelectSeq(record, LAMBDA item : item[1] \in Range(keys))
        untyped == SelectSeq(record, LAMBDA item : item[2].t = "TaggableList" /\ item[2].varied)
    IN  UniversalRecord(pk,
                        dissoc(dissoc(record, Range(DictKeys(pk))), Range(DictKeys(untyped))),
                        untyped)

-----------------------------------------------------------------------------
(* Outcomes of a to_sql call *)

NoEvent == [schema |-> None, table |-> None, has_metadata |-> FALSE, operation |-> None,
            has_table_def |-> FALSE, columns |-> <<>>, primary_key |-> <<>>, data |-> <<>>]

NoCall == [record |-> NoEvent, operation |-> None,
           kind |-> "NoCall", verb |-> "", statement |-> "", parameters |-> <<>>,
           set_clause |-> EmptyClause, where_clause |-> EmptyClause, message |-> ""]

\* SQLOperation(statement, parameters)
SQLOperation(verb, statement, parameters, set_clause, where_clause) ==
    [NoCall EXCEPT !.kind = "SQLOperation", !.verb = verb, !.statement = statement,
                   !.parameters = parameters, !.set_clause = set_clause,
                   !.where_clause = where_clause]

\* raise <exception>(message)
Raise(exception, message) == [NoCall EXCEPT !.kind = exception, !.message = message]

-----------------------------------------------------------------------------
(* commons_codec.transform.aws_dms *)

DMSBucket_post_init_names_unchecked(ev) ==
    LET tweaked == IF ev.has_metadata /\ truthy(ev.table) /\ startswith(ev.table, "awsdms_")
                   THEN [ev EXCEPT !.schema = "dms"]
                   ELSE ev
        error == IF ~tweaked.has_metadata \/ ~truthy(tweaked.operation)
                 THEN "Record not in DMS format: metadata and/or operation is missing"
                 ELSE ""
    IN  [event |-> tweaked, error |-> error]

\* DMSBucket.__attrs_post_init__: the diversion of awsdms_ tables, then the
\* sanity checks.  Returns the event as the bucket leaves it and the message
\* of the MessageFormatError ("" when none is raised).
DMSBucket_post_init(ev) ==
    LET tweaked == IF ev.has_metadata /\ truthy(ev.table) /\ startswith(ev.table, "awsdms_")
                   THEN [ev EXCEPT !.schema = "dms"]
                   ELSE ev
        error == IF ~tweaked.has_metadata \/ ~truthy(tweaked.operation)
                 THEN "Record not in DMS format: metadata and/or operation is missing"
                 ELSE IF ~truthy(tweaked.schema) \/ ~truthy(tweaked.table)
                 THEN "Schema or table name missing or empty: schema=" \o tweaked.schema
                      \o ", table=" \o tweaked.table
                 ELSE ""
    IN  [event |-> tweaked, error |-> error]

address_of_declared(ev) ==
    TableAddress(IF ev.schema = "dms" THEN "public" ELSE ev.schema, ev.table)

\* DMSBucket.address
address_of(ev) == TableAddress(ev.schema, ev.table)

\* DMSTranslatorCrateDBRecordFactory.create: the strategy of the address.
DEFAULT_MAPPING_STRATEGY == "DIRECT"

create_strategy(strategies, address) == StoreGet(strategies, address, DEFAULT_MAPPING_STRATEGY)

\* DMSTranslatorCrateDBRecordBase.__init__, lines 141-144: append the declared
\* keys that the list does not hold yet.
RECURSIVE learn_primary_keys_unchecked(_, _)
learn_primary_keys_unchecked(keys, pks) ==
    IF pks = <<>> THEN keys
    ELSE learn_primary_keys_unchecked(Append(keys, pks[1]), Tail(pks))

RECURSIVE learn_primary_keys(_, _)
learn_primary_keys(keys, pks) ==
    IF pks = <<>> THEN keys
    ELSE learn_primary_keys(IF pks[1] \in Range(keys) THEN keys ELSE Append(keys, pks[1]),
                            Tail(pks))

Record_init_ddl_always(st, address, ev) ==
    LET pk1 == setdefault(st.primary_keys, address, <<>>)
        pks == IF ev.has_table_def THEN ev.primary_key ELSE <<>>
        keys == learn_primary_keys(pk1[address], pks)
    IN  [st EXCEPT !.primary_keys = [pk1 EXCEPT ![address] = keys],
                   !.column_types = setdefault(st.column_types, address, <<>>),
                   !.ignore_ddl = setdefault(st.ignore_ddl, address, FALSE),
                   !.primary_keys_caller =
                        IF address \in st.pk_shared
                        THEN [st.primary_keys_caller EXCEPT ![address] = keys]
                        ELSE st.primary_keys_caller]

\* DMSTranslatorCrateDBRecordBase.__init__ on the schema store st.
Record_init(st, address, ev) ==
    LET pk1 == setdefault(st.primary_keys, address, <<>>)
        ct1 == setdefault(st.column_types, address, <<>>)
        ig1 == setdefault(st.ignore_ddl, address, FALSE)
        pks == IF ev.has_table_def THEN ev.primary_key ELSE <<>>
        keys == IF ~ig1[address] THEN learn_primary_keys(pk1[address], pks) ELSE pk1[address]
    IN  [st EXCEPT !.primary_keys = [pk1 EXCEPT ![address] = keys],
                   !.column_types = ct1,
                   !.ignore_ddl = ig1,
                   \* the list appended to may be the one primary_keys_caller holds
                   !.primary_keys_caller =
                        IF address \in st.pk_shared
                        THEN [st.primary_keys_caller EXCEPT ![address] = keys]
                        ELSE st.primary_keys_caller]

\* DMSTranslatorCrateDBRecordBase.resolve_type
resolve_type(ltype) ==
    CASE ltype = "INT8" -> "INT1"
      [] ltype = "INT16" -> "INT2"
      [] ltype = "INT32" -> "INT4"
      [] ltype = "INT64" -> "INT8"
      [] OTHER -> "TEXT"

decode_data_verbatim(data, types) == [ok |-> TRUE, data |-> data]

\* DMSTranslatorCrateDBRecordBase.decode_data: walks the declared column types
\* and rewrites the event's data in place.  ok = FALSE is json.loads raising.
RECURSIVE decode_data(_, _)
decode_data(data, types) ==
    IF types = <<>> THEN [ok |-> TRUE, data |-> data]
    ELSE LET column_name == types[1][1]
             column_type == types[1][2]
         IN  IF ~DictHas(data, column_name) THEN decode_data(data, Tail(types))
             ELSE LET value == DictGet(data, column_name, PyNone)
                  IN  IF column_type \in {"MAP", "OBJECT"} /\ value.t = "str"
                      THEN LET parsed == json_loads(value.v)
                           IN  IF parsed.ok
                               THEN decode_data(DictSet(data, column_name, parsed.value), Tail(types))
                               ELSE [ok |-> FALSE, data |-> data]
                      ELSE decode_data(data, Tail(types))

PK_COLUMN == "pk"
TYPED_COLUMN == "data"
UNTYPED_COLUMN == "aux"

\* DMSTranslatorCrateDBRecordUniversal.pk_clause
pk_clause(keys, ev) ==
    LET columns == IF ev.has_table_def THEN ev.columns ELSE <<>>
        pk_clauses == [i \in 1..Len(keys) |->
                          "\"" \o keys[i] \o "\" " \o resolve_type(DictGet(columns, keys[i], "TEXT"))
                          \o " PRIMARY KEY"]
    IN  IF keys # <<>> THEN " AS (" \o Join(pk_clauses, ", ") \o ")" ELSE ""

\* DMSTranslatorCrateDBRecordDirect.columns_ddl
columns_ddl(keys, ev) ==
    LET columns == IF ev.has_table_def THEN ev.columns ELSE <<>>
    IN  [i \in 1..Len(columns) |->
            "\"" \o columns[i][1] \o "\" " \o resolve_type(columns[i][2])
            \o (IF columns[i][1] \in Range(keys) THEN " PRIMARY KEY" ELSE "")]

\* create_operation of both record classes
create_operation(strategy, ignore, address, keys, ev) ==
    IF ignore THEN Raise("SkipOperation", "Ignoring DMS DDL event: create-table")
    ELSE IF strategy = "UNIVERSAL"
    THEN SQLOperation("CREATE",
            "CREATE TABLE IF NOT EXISTS " \o fqn(address).text \o " ("
            \o PK_COLUMN \o " OBJECT(STRICT)" \o pk_clause(keys, ev) \o ", "
            \o TYPED_COLUMN \o " OBJECT(DYNAMIC), "
            \o UNTYPED_COLUMN \o " OBJECT(IGNORED));",
            <<>>, EmptyClause, EmptyClause)
    ELSE SQLOperation("CREATE",
            "CREATE TABLE IF NOT EXISTS " \o fqn(address).text \o " ("
            \o Join(columns_ddl(keys, ev), ", ") \o ");",
            <<>>, EmptyClause, EmptyClause)

\* DMSTranslatorCrateDBRecordDirect.insert_clause
RECURSIVE insert_clause(_, _)
insert_clause(clause, data) ==
    IF data = <<>> THEN clause
    ELSE insert_clause(clause_add(clause, data[1][1], data[1][2], data[1][1]), Tail(data))

\* update_clause of both record classes: the SET clause without key columns
set_lval(strategy, column) ==
    IF strategy = "UNIVERSAL" THEN TYPED_COLUMN \o "['" \o column \o "']" ELSE column

RECURSIVE update_clause_with_keys(_, _, _, _)
update_clause_with_keys(strategy, clause, data, keys) ==
    IF data = <<>> THEN clause
    ELSE update_clause_with_keys(strategy,
                                 clause_add(clause, set_lval(strategy, data[1][1]), data[1][2], data[1][1]),
                                 Tail(data), keys)

RECURSIVE update_clause(_, _, _, _)
update_clause(strategy, clause, data, keys) ==
    IF data = <<>> THEN clause
    ELSE IF data[1][1] \in Range(keys)
    THEN update_clause(strategy, clause, Tail(data), keys)
    ELSE update_clause(strategy,
                       clause_add(clause, set_lval(strategy, data[1][1]), data[1][2], data[1][1]),
                       Tail(data), keys)

\* keys_to_where of both record classes, past the check for an empty key list
where_lval(strategy, key_name) ==
    IF strategy = "UNIVERSAL" THEN PK_COLUMN \o "['" \o key_name \o "']" ELSE key_name

RECURSIVE keys_to_where(_, _, _, _)
keys_to_where(strategy, clause, data, keys) ==
    IF keys = <<>> THEN clause
    ELSE LET key_value == DictGet(data, keys[1], PyNone)
         IN  IF key_value # PyNone
             THEN keys_to_where(strategy,
                                clause_add(clause, where_lval(strategy, keys[1]), key_value, keys[1]),
                                data, Tail(keys))
             ELSE keys_to_where(strategy, clause, data, Tail(keys))

NoPrimaryKeys == "Unable to invoke DML operation without primary key information"

\* insert_operation of both record classes; data is the decoded data
insert_operation(strategy, address, keys, data) ==
    IF strategy = "UNIVERSAL"
    THEN SQLOperation("INSERT",
            "INSERT INTO " \o fqn(address).text \o " ("
            \o PK_COLUMN \o ", " \o TYPED_COLUMN \o ", " \o UNTYPED_COLUMN
            \o ") VALUES (:pk, :typed, :untyped) ON CONFLICT DO NOTHING;",
            from_record(data, keys), EmptyClause, EmptyClause)
    ELSE LET clause == insert_clause(EmptyClause, data)
         IN  SQLOperation("INSERT",
                "INSERT INTO " \o fqn(address).text \o " (" \o render_lvals(clause)
                \o ") VALUES (" \o render_rvals(clause) \o ") ON CONFLICT DO NOTHING;",
                data, clause, EmptyClause)

update_operation_unchecked(strategy, address, keys, data) ==
    LET set_clause == update_clause(strategy, EmptyClause, data, keys)
        where_clause == keys_to_where(strategy, EmptyClause, data, keys)
    IN  SQLOperation("UPDATE",
            "UPDATE " \o fqn(address).text \o " SET " \o render(set_clause, ", ")
            \o " WHERE " \o render(where_clause, " AND ") \o ";",
            DictUpdate(set_clause.values, where_clause.values),
            set_clause, where_clause)

\* DMSTranslatorCrateDBRecordBase.update_operation; data is the decoded data
update_operation(strategy, address, keys, data) ==
    LET set_clause == update_clause(strategy, EmptyClause, data, keys)
        where_clause == keys_to_where(strategy, EmptyClause, data, keys)
    IN  IF keys = <<>> THEN Raise("ValueError", NoPrimaryKeys)
        ELSE SQLOperation("UPDATE",
                "UPDATE " \o fqn(address).text \o " SET " \o render(set_clause, ", ")
                \o " WHERE " \o render(where_clause, " AND ") \o ";",
                DictUpdate(set_clause.values, where_clause.values),
                set_clause, where_clause)

\* DMSTranslatorCrateDBRecordBase.delete_operation
delete_operation(strategy, address, keys, data) ==
    LET where_clause == keys_to_where(strategy, EmptyClause, data, keys)
    IN  IF keys = <<>> THEN Raise("ValueError", NoPrimaryKeys)
        ELSE SQLOperation("DELETE",
                "DELETE FROM " \o fqn(address).text \o " WHERE "
                \o render(where_clause, " AND ") \o ";",
                where_clause.values, EmptyClause, where_clause)

drop_reset_every_table(st, address) ==
    [st EXCEPT !.primary_keys = st.primary_keys_caller,
               !.column_types = st.column_types_caller,
               !.pk_shared = DOMAIN st.primary_keys_caller]

\* DMSTranslatorCrateDBRecordBase.drop_operation: the store after the reset.
drop_reset(st, address) ==
    [st EXCEPT !.primary_keys =
                    StoreSet(st.primary_keys, address, StoreGet(st.primary_keys_caller, address, <<>>)),
               !.column_types =
                    StoreSet(st.column_types, address, StoreGet(st.column_types_caller, address, <<>>)),
               \* .get() hands out the caller list itself, or a fresh empty list
               !.pk_shared = IF address \in DOMAIN st.primary_keys_caller
                             THEN st.pk_shared \cup {address}
                             ELSE st.pk_shared \ {address}]

drop_operation(address) ==
    SQLOperation("DROP", "DROP TABLE IF EXISTS " \o fqn(address).text \o ";",
                 <<>>, EmptyClause, EmptyClause)

\* DMSTranslatorCrateDBRecordBase.to_sql: the handler an operation kind selects.
to_sql_dispatch_load_unknown(operation) ==
    CASE operation = "create-table" -> "create_operation"
      [] operation = "drop-table" -> "drop_operation"
      [] operation = "insert" -> "insert_operation"
      [] operation = "update" -> "update_operation"
      [] operation = "delete" -> "delete_operation"
      [] OTHER -> "unknown"

to_sql_dispatch(operation) ==
    CASE operation = "create-table" -> "create_operation"
      [] operation = "drop-table" -> "drop_operation"
      [] operation \in {"load", "insert"} -> "insert_operation"
      [] operation = "update" -> "update_operation"
      [] operation = "delete" -> "delete_operation"
      [] OTHER -> "unknown"

\* DMSTranslatorCrateDBRecordBase.to_sql, after __init__: the handler runs on
\* the schema store st.  Returns the store, the event and the outcome.
record_to_sql(st, strategy, address, ev) ==
    LET handler == to_sql_dispatch(ev.operation)
        keys == st.primary_keys[address]
        ignore == st.ignore_ddl[address]
        decoded == decode_data(ev.data, st.column_types[address])
        decoded_ev == [ev EXCEPT !.data = decoded.data]
        json_error == Raise("JSONDecodeError", "Expecting value")
    IN  CASE handler = "create_operation" ->
                [event |-> ev,
                 outcome |-> create_operation(strategy, ignore, address, keys, ev),
                 st |-> st]
          [] handler = "drop_operation" ->
                IF ignore
                THEN [event |-> ev,
                      outcome |-> Raise("SkipOperation", "Ignoring DMS DDL event: drop-table"),
                      st |-> st]
                ELSE [event |-> ev,
                      outcome |-> drop_operation(address),
                      st |-> drop_reset(st, address)]
          [] handler = "insert_operation" ->
                [event |-> decoded_ev,
                 outcome |-> IF decoded.ok
                             THEN insert_operation(strategy, address, keys, decoded.data)
                             ELSE json_error,
                 st |-> st]
          [] handler = "update_operation" ->
                [event |-> decoded_ev,
                 outcome |-> IF decoded.ok
                             THEN update_operation(strategy, address, keys, decoded.data)
                             ELSE json_error,
                 st |-> st]
          [] handler = "delete_operation" ->
                [event |-> ev,
                 outcome |-> delete_operation(strategy, address, keys, ev.data),
                 st |-> st]
          [] OTHER ->
                [event |-> ev,
                 outcome |-> [Raise("UnknownOperationError",
                                    "DMS CDC event operation unknown: " \o ev.operation)
                              EXCEPT !.operation = ev.operation, !.record = ev],
                 st |-> st]

\* DMSTranslatorCrateDB.to_sql(record)
to_sql(st, ev) ==
    LET bucket == DMSBucket_post_init(ev)
        address == address_of(bucket.event)
        strategy == create_strategy(st.mapping_strategy, address)
    IN  IF bucket.error # ""
        THEN [event |-> bucket.event,
              outcome |-> Raise("MessageFormatError", bucket.error),
              st |-> st]
        ELSE record_to_sql(Record_init(st, address, bucket.event), strategy, address, bucket.event)

\* the values a row holds in the key columns
row_key(row, keys) == [i \in 1..Len(keys) |-> DictGet(row, keys[i], PyNone)]

\* whether a row satisfies the equalities of a WHERE clause
where_matches(row, values) ==
    \A i \in 1..Len(values) :
        DictHas(row, values[i][1]) /\ DictGet(row, values[i][1], PyNone) = values[i][2]

\* the sink table, keyed by the key columns, after the statement of an
\* operation is executed on it: INSERT ... ON CONFLICT DO NOTHING, UPDATE ...
\* SET ... WHERE, DELETE ... WHERE.  A row of the UNIVERSAL layout is held by
\* its columns: those of pk, then those of data and aux.
sink_execute(rows, operation, strategy, keys) ==
    IF operation.kind # "SQLOperation" THEN rows
    ELSE CASE operation.verb = "INSERT" ->
                LET row == IF strategy = "UNIVERSAL"
                           THEN operation.parameters.pk \o operation.parameters.typed
                                \o operation.parameters.untyped
                           ELSE operation.parameters
                IN  IF \E held \in rows : row_key(held, keys) = row_key(row, keys)
                    THEN rows
                    ELSE rows \cup {row}
           [] operation.verb = "UPDATE" ->
                { IF where_matches(row, operation.where_clause.values)
                  THEN DictUpdate(row, operation.set_clause.values)
                  ELSE row : row \in rows }
           [] operation.verb = "DELETE" ->
                { row \in rows : ~where_matches(row, operation.where_clause.values) }
           [] OTHER -> rows


-----------------------------------------------------------------------------
(* commons_codec.transform.dynamodb *)

\* A wire value {"<tag>": <val>} is the record [tag |-> <tag>, val |-> <val>];
\* the empty dict is EmptyWire.
EmptyWire == [tag |-> "", val |-> ""]

Wire(tag, val) == [tag |-> tag, val |-> val]

PyFloat(text) == [t |-> "float", v |-> text]
PyBool(text) == [t |-> "bool", v |-> text]
PyList(items) == [t |-> "list", v |-> items]
PyMap(items) == [t |-> "dict", v |-> items]

\* TaggableList(items) with its "varied" tag
TaggableList(items, varied) == [t |-> "TaggableList", v |-> items, varied |-> varied]

\* float(Decimal(text)) on the number texts the model feeds it
to_float(text) ==
    CASE text = "1" -> "1.0"
      [] text = "2" -> "2.0"
      [] text = "1.00000000000000000001" -> "1.0"
      [] OTHER -> text

\* list(set(items)): the distinct items, in the order this process iterates
list_of_set(items, order) == SelectSeq(order, LAMBDA x : x \in items)

DynamoDBTypes == {"NULL", "BOOL", "N", "S", "B", "NS", "SS", "BS", "L", "M"}

\* CrateDBTypeDeserializer.deserialize with its _deserialize_<tag> methods;
\* ok = FALSE is the TypeError for an empty dict or an unsupported tag.
RECURSIVE deserialize(_, _)
deserialize(value, order) ==
    LET tag == value.tag
        val == value.val
        good(x) == [ok |-> TRUE, value |-> x]
        bad == [ok |-> FALSE, value |-> PyNone]
    IN  IF value = EmptyWire \/ tag \notin DynamoDBTypes THEN bad
        ELSE CASE tag = "NULL" -> good(PyNone)
               [] tag = "BOOL" -> good(PyBool(val))
               [] tag = "N" -> good(PyFloat(to_float(val)))
               [] tag = "S" -> good(PyStr(val))
               [] tag = "B" -> good(PyStr(val))
               [] tag = "NS" -> good(PyList(list_of_set({PyFloat(to_float(x)) : x \in Range(val)}, order)))
               [] tag = "SS" -> good(PyList(list_of_set({PyStr(x) : x \in Range(val)}, order)))
               [] tag = "BS" -> good(PyList(list_of_set({PyStr(x) : x \in Range(val)}, order)))
               [] tag = "L" ->
                    LET items == [i \in 1..Len(val) |-> deserialize(val[i], order)]
                        varied == \E i \in 1..Len(val) : val[i].tag # val[1].tag
                    IN  IF \A i \in 1..Len(val) : items[i].ok
                        THEN good(TaggableList([i \in 1..Len(val) |-> items[i].value], varied))
                        ELSE bad
               [] tag = "M" ->
                    LET items == [i \in 1..Len(val) |-> deserialize(val[i][2], order)]
                    IN  IF \A i \in 1..Len(val) : items[i].ok
                        THEN good(PyMap([i \in 1..Len(val) |-> <<val[i][1], items[i].value>>]))
                        ELSE bad

\* decode_record moving every list to untyped, whatever its tag says
decode_record_every_list(item, order) ==
    LET values == [i \in 1..Len(item) |-> deserialize(item[i][2], order)]
        record == [i \in 1..Len(item) |-> <<item[i][1], values[i].value>>]
        untyped == SelectSeq(record, LAMBDA field : field[2].t = "TaggableList")
    IN  [ok |-> \A i \in 1..Len(item) : values[i].ok,
         typed |-> dissoc(record, Range(DictKeys(untyped))),
         untyped |-> untyped]

\* DynamoTranslatorBase.decode_record: DualRecord(typed, untyped)
decode_record(item, order) ==
    LET values == [i \in 1..Len(item) |-> deserialize(item[i][2], order)]
        record == [i \in 1..Len(item) |-> <<item[i][1], values[i].value>>]
        untyped == SelectSeq(record, LAMBDA field : field[2].t = "TaggableList" /\ field[2].varied)
    IN  [ok |-> \A i \in 1..Len(item) : values[i].ok,
         typed |-> dissoc(record, Range(DictKeys(untyped))),
         untyped |-> untyped]

\* SQLParameterizedClause.add(lval, value, name, rval)
clause_add_rval(clause, lval, value, name, rval) ==
    [lvals |-> Append(clause.lvals, lval),
     rvals |-> Append(clause.rvals, rval),
     values |-> DictSet(clause.values, name, value)]

\* DynamoDBCDCTranslator.record_to_set_clause
RECURSIVE record_to_set_clause(_, _, _)
record_to_set_clause(record, container_column, clause) ==
    IF record = <<>> THEN clause
    ELSE LET column == record[1][1]
             value == record[1][2]
             lval == container_column \o "['" \o column \o "']"
             next ==
                IF value.t = "dict"
                THEN clause_add_rval(clause, lval, value, column, "CAST(:" \o column \o " AS OBJECT)")
                ELSE IF /\ value.t \in {"list", "TaggableList"}
                        /\ value.v # <<>>
                        /\ value.v[1].t = "dict"
                THEN clause_add_rval(clause, lval, value, column, "CAST(:" \o column \o " AS OBJECT[])")
                ELSE clause_add(clause, lval, value, column)
         IN  record_to_set_clause(Tail(record), container_column, next)

\* DynamoDBCDCTranslator.update_clause
ddb_update_clause(dual_record) ==
    record_to_set_clause(dual_record.untyped, UNTYPED_COLUMN,
                         record_to_set_clause(dual_record.typed, TYPED_COLUMN, EmptyClause))

\* DynamoDBCDCTranslator.keys_to_where, lines 246-247: one predicate per typed key
RECURSIVE keys_to_where_clause(_, _)
keys_to_where_clause(record, clause) ==
    IF record = <<>> THEN clause
    ELSE keys_to_where_clause(Tail(record),
            clause_add(clause, TYPED_COLUMN \o "['" \o record[1][1] \o "']", record[1][2], record[1][1]))

\* DynamoDBCDCTranslator.keys_to_where
ddb_keys_to_where(keys, order) ==
    LET dual_record == decode_record(keys, order)
    IN  [ok |-> dual_record.ok, clause |-> keys_to_where_clause(dual_record.typed, EmptyClause)]

\* DynamoDBCDCTranslator.to_sql, lines 181-182: del new_image[key] for every
\* key of Keys; ok = FALSE is the KeyError, raised with the keys before it gone.
RECURSIVE delete_keys(_, _)
delete_keys(new_image, keys) ==
    IF keys = <<>> THEN [ok |-> TRUE, image |-> new_image]
    ELSE IF ~DictHas(new_image, keys[1][1]) THEN [ok |-> FALSE, image |-> new_image]
    ELSE delete_keys(dissoc(new_image, {keys[1][1]}), Tail(keys))

\* DynamoTranslatorBase.table_name of the translator under test
ddb_table_name == "foo"

\* the keyword argument primary_key_schema of a constructor call: passed or
\* not, and the (name, DynamoDB type) pairs of the PrimaryKeySchema passed
KeySchema(passed, attributes) == [passed |-> passed, attributes |-> attributes]

NoKeySchema == KeySchema(FALSE, <<>>)

\* Attribute.cratedb_type of an attribute of DynamoDB type type_
cratedb_type(type_) ==
    CASE type_ = "S" -> "STRING"
      [] type_ = "N" -> "BIGINT"
      [] type_ = "B" -> "STRING"

\* PrimaryKeySchema.to_sql_ddl_clauses
to_sql_ddl_clauses(attributes) ==
    [i \in 1..Len(attributes) |->
        "\"" \o attributes[i][1] \o "\" " \o cratedb_type(attributes[i][2]) \o " PRIMARY KEY"]

\* DynamoTranslatorBase.__init__(self, table_name) as DynamoDBFullLoadTranslator
\* inherits it: primary_key_schema is none of its parameters.
DynamoTranslatorBase_init(arguments) ==
    IF arguments.passed
    THEN Raise("TypeError", "DynamoTranslatorBase.__init__() got an unexpected keyword argument 'primary_key_schema'")
    ELSE [NoCall EXCEPT !.kind = "DynamoDBFullLoadTranslator"]

\* DynamoTranslatorBase.sql_ddl
ddb_sql_ddl ==
    [NoCall EXCEPT !.kind = "str",
                   !.statement = "CREATE TABLE IF NOT EXISTS " \o ddb_table_name \o " ("
                                 \o TYPED_COLUMN \o " OBJECT(DYNAMIC), "
                                 \o UNTYPED_COLUMN \o " OBJECT(IGNORED));"]

\* DynamoDBCDCTranslator.to_sql(event).  Returns the event as the call leaves
\* it and the outcome.
ddb_to_sql(ev, order) ==
    LET type_error == Raise("TypeError", "Dynamodb type is not supported")
        key_error == Raise("KeyError", "")
        untouched(result) == [event |-> ev, outcome |-> result]
    IN  IF ev.eventSource # "aws:dynamodb"
        THEN untouched(Raise("ValueError", "Unknown eventSource: " \o ev.eventSource))
        ELSE CASE ev.eventName = "INSERT" ->
                    IF ~ev.has_new_image THEN untouched(key_error)
                    ELSE LET dual_record == decode_record(ev.NewImage, order)
                         IN  IF ~dual_record.ok THEN untouched(type_error)
                             ELSE untouched(SQLOperation("INSERT",
                                    "INSERT INTO " \o ddb_table_name \o " (" \o TYPED_COLUMN \o ", "
                                    \o UNTYPED_COLUMN \o ") VALUES (:typed, :untyped);",
                                    << <<"typed", PyMap(dual_record.typed)>>,
                                       <<"untyped", PyMap(dual_record.untyped)>> >>,
                                    EmptyClause, EmptyClause))
               [] ev.eventName = "MODIFY" ->
                    IF ~ev.has_new_image \/ ~ev.has_keys THEN untouched(key_error)
                    ELSE LET deleted == delete_keys(ev.NewImage, ev.Keys)
                             left == [ev EXCEPT !.NewImage = deleted.image]
                             dual_record == decode_record(deleted.image, order)
                             set_clause == ddb_update_clause(dual_record)
                             where == ddb_keys_to_where(ev.Keys, order)
                         IN  IF ~deleted.ok THEN [event |-> left, outcome |-> key_error]
                             ELSE IF ~dual_record.ok \/ ~where.ok
                             THEN [event |-> left, outcome |-> type_error]
                             ELSE [event |-> left,
                                   outcome |-> SQLOperation("UPDATE",
                                        "UPDATE " \o ddb_table_name \o " SET " \o render(set_clause, ", ")
                                        \o " WHERE " \o render(where.clause, " AND ") \o ";",
                                        DictUpdate(set_clause.values, where.clause.values),
                                        set_clause, where.clause)]
               [] ev.eventName = "REMOVE" ->
                    IF ~ev.has_keys THEN untouched(key_error)
                    ELSE LET where == ddb_keys_to_where(ev.Keys, order)
                         IN  IF ~where.ok THEN untouched(type_error)
                             ELSE untouched(SQLOperation("DELETE",
                                    "DELETE FROM " \o ddb_table_name \o " WHERE "
                                    \o render(where.clause, " AND ") \o ";",
                                    where.clause.values, EmptyClause, where.clause))
               [] OTHER ->
                    untouched(Raise("ValueError", "Unknown CDC event name: " \o ev.eventName))

-----------------------------------------------------------------------------
(* commons_codec.transform.mongodb *)

\* bson.ObjectId(hex) and datetime.datetime, the latter by its ISO 8601 text
\* without zone (a naive datetime in UTC)
ObjectId(hex) == [t |-> "ObjectId", v |-> hex]
datetime(text) == [t |-> "datetime", v |-> text]

\* str(value)
py_str(value) == IF value.t = "NoneType" THEN "None" ELSE value.v

\* bool(value) of a scalar
py_truthy(value) ==
    CASE value.t = "NoneType" -> FALSE
      [] value.t = "str" -> value.v # ""
      [] value.t = "int" -> value.v # "0"
      [] OTHER -> TRUE

\* int(c) of one decimal digit
digit(c) ==
    CASE c = "0" -> 0 [] c = "1" -> 1 [] c = "2" -> 2 [] c = "3" -> 3 [] c = "4" -> 4
      [] c = "5" -> 5 [] c = "6" -> 6 [] c = "7" -> 7 [] c = "8" -> 8 [] c = "9" -> 9

\* int(text) of a run of at most nine decimal digits
RECURSIVE atoi(_)
atoi(text) ==
    IF text = "" THEN 0
    ELSE atoi(SubSeq(text, 1, Len(text) - 1)) * 10 + digit(SubSeq(text, Len(text), Len(text)))

\* "%0<width>d" % n, for n >= 0
zfill(n, width) == SubSeq("000000", 1, width - Len(ToString(n))) \o ToString(n)

\* datetime.date(year, month, day).toordinal() - EPOCH.toordinal(): days
\* since 1970-01-01 in the proleptic Gregorian calendar
days_from_civil(year, month, day) ==
    LET y == IF month <= 2 THEN year - 1 ELSE year
        era == y \div 400
        yoe == y - era * 400
        mp == (month + 9) % 12
        doy == (153 * mp + 2) \div 5 + day - 1
        doe == yoe * 365 + yoe \div 4 - yoe \div 100 + doy
    IN  era * 146097 + doe - 719468

\* the date that many days after 1970-01-01, as <<year, month, day>>
civil_from_days(days) ==
    LET z == days + 719468
        era == z \div 146097
        doe == z - era * 146097
        yoe == (doe - doe \div 1460 + doe \div 36524 - doe \div 146096) \div 365
        doy == doe - (365 * yoe + yoe \div 4 - yoe \div 100)
        mp == (5 * doy + 2) \div 153
        month == IF mp < 10 THEN mp + 3 ELSE mp - 9
    IN  <<yoe + era * 400 + (IF month <= 2 THEN 1 ELSE 0), month, doy - (153 * mp + 2) \div 5 + 1>>

\* datetime.isoformat(): the text by which the model holds a naive datetime
isoformat(date, hour, minute, second, microsecond) ==
    zfill(date[1], 4) \o "-" \o zfill(date[2], 2) \o "-" \o zfill(date[3], 2) \o "T"
    \o zfill(hour, 2) \o ":" \o zfill(minute, 2) \o ":" \o zfill(second, 2)
    \o (IF microsecond = 0 THEN "" ELSE "." \o zfill(microsecond, 6))

\* EPOCH_NAIVE + timedelta(seconds=seconds, microseconds=microsecond)
utcfromtimestamp(seconds, microsecond) ==
    LET rem == seconds % 86400
    IN  isoformat(civil_from_days(seconds \div 86400),
                  rem \div 3600, (rem % 3600) \div 60, rem % 60, microsecond)

\* calendar.timegm(datetime.utctimetuple()) of a naive datetime: whole seconds
\* since the epoch; the time tuple has no place for the microseconds
timegm_seconds(text) ==
    days_from_civil(atoi(SubSeq(text, 1, 4)), atoi(SubSeq(text, 6, 7)), atoi(SubSeq(text, 9, 10))) * 86400
    + atoi(SubSeq(text, 12, 13)) * 3600 + atoi(SubSeq(text, 15, 16)) * 60 + atoi(SubSeq(text, 18, 19))

\* the same, as the decimal text of the Python int
timegm(text) == ToString(timegm_seconds(text))

\* bson.json_util._parse_canonical_datetime of a string, as object_hook calls
\* it: cuts off the offset ("Z", "+HH:MM", "+HHMM", "+HH"), reads the fraction
\* as microseconds, and returns the naive datetime in UTC
parse_canonical_datetime(dtm) ==
    LET n == Len(dtm)
        at(k) == IF n >= k THEN SubSeq(dtm, n - k + 1, n - k + 1) ELSE ""
        offset == IF at(1) = "Z" THEN "Z"
                  ELSE IF at(6) \in {"+", "-"} /\ at(3) = ":" THEN SubSeq(dtm, n - 5, n)
                  ELSE IF at(5) \in {"+", "-"} THEN SubSeq(dtm, n - 4, n)
                  ELSE IF at(3) \in {"+", "-"} THEN SubSeq(dtm, n - 2, n)
                  ELSE ""
        dt == SubSeq(dtm, 1, n - Len(offset))
        microsecond == atoi(SubSeq(SubSeq(dt, 21, Len(dt)) \o "000000", 1, 6))
        minutes == IF Len(offset) = 6 THEN atoi(SubSeq(offset, 5, 6))
                   ELSE IF Len(offset) = 5 THEN atoi(SubSeq(offset, 4, 5))
                   ELSE 0
        secs == (atoi(SubSeq(offset, 2, 3)) * 3600 + minutes * 60)
                * (IF SubSeq(offset, 1, 1) = "-" THEN -1 ELSE 1)
    IN  IF offset \in {"", "Z"}
        THEN utcfromtimestamp(timegm_seconds(dt), microsecond)
        ELSE utcfromtimestamp(timegm_seconds(dt) - secs, microsecond)

\* bson.datetime_ms._millis_to_datetime(int(text)), as object_hook calls it:
\* diff = millis % 1000, seconds = (millis - diff) // 1000, the datetime is
\* EPOCH_NAIVE + timedelta(seconds=seconds, microseconds=diff * 1000)
millis_to_datetime(text) ==
    LET negative == startswith(text, "-")
        digits == IF negative THEN Tail(text) ELSE text
        n == Len(digits)
        high == atoi(SubSeq(digits, 1, n - 3))
        low == atoi(SubSeq(digits, IF n > 3 THEN n - 2 ELSE 1, n))
    IN  IF ~negative THEN utcfromtimestamp(high, low * 1000)
        ELSE IF low = 0 THEN utcfromtimestamp(-high, 0)
        ELSE utcfromtimestamp(-high - 1, (1000 - low) * 1000)

\* out * 1000 on the decimal text of a Python int
times_1000(text) == IF text = "0" THEN "0" ELSE text \o "000"

\* MongoDBCrateDBConverter.convert_epoch of a datetime
convert_epoch(value) == timegm(value.v)

\* bson.json_util._json_convert: BSON and native values to Extended JSON
RECURSIVE json_convert(_)
json_convert(value) ==
    CASE value.t = "dict" ->
            PyMap([i \in 1..Len(value.v) |-> <<value.v[i][1], json_convert(value.v[i][2])>>])
      [] value.t = "list" ->
            PyList([i \in 1..Len(value.v) |-> json_convert(value.v[i])])
      [] value.t = "ObjectId" -> PyMap(<< <<"$oid", PyStr(value.v)>> >>)
      [] value.t = "datetime" -> PyMap(<< <<"$date", PyStr(value.v \o "Z")>> >>)
      [] OTHER -> value

\* MongoDBCrateDBConverter.decode_extended_json, lines 147-152: a datetime
\* becomes the epoch in seconds, multiplied by 1000
decode_datetime_in_seconds(out) == PyInt(convert_epoch(out))

decode_datetime(out) == PyInt(times_1000(convert_epoch(out)))

\* MongoDBCrateDBConverter.decode_extended_json of a dict with one item, for
\* the converter MongoDBTranslatorBase.__init__ creates (timestamp_to_epoch
\* and timestamp_use_milliseconds set).  A $date holding a $numberLong is
\* replaced by the int first; object_hook then makes a datetime of the string
\* or the int (of the instants datetime can hold, for which it does not raise).
decode_extended_json(value) ==
    LET type_ == value.v[1][1]
        item == IF type_ = "$date" /\ value.v[1][2].t = "dict"
                THEN PyInt(DictGet(value.v[1][2].v, "$numberLong", PyStr("0")).v)
                ELSE value.v[1][2]
    IN  CASE type_ = "$oid" /\ item.t = "str" -> PyStr(item.v)
          [] type_ = "$date" /\ item.t = "str" ->
                decode_datetime(datetime(parse_canonical_datetime(item.v)))
          [] type_ = "$date" /\ item.t = "int" ->
                decode_datetime(datetime(millis_to_datetime(item.v)))
          [] OTHER -> value

\* MongoDBCrateDBConverter.decode_value
RECURSIVE decode_value(_)
decode_value(value) ==
    CASE value.t = "dict" ->
            IF Len(value.v) = 1 /\ startswith(value.v[1][1], "$")
            THEN decode_extended_json(value)
            ELSE PyMap([i \in 1..Len(value.v) |-> <<value.v[i][1], decode_value(value.v[i][2])>>])
      [] value.t = "list" ->
            PyList([i \in 1..Len(value.v) |-> decode_value(value.v[i])])
      [] OTHER -> value

\* MongoDBCrateDBConverter.decode_document
decode_document(data) == decode_value(json_convert(data))

\* MongoDBTranslatorBase.ID_COLUMN, DATA_COLUMN
ID_COLUMN == "oid"
DATA_COLUMN == "data"

\* quote_relation_name(table_name) of the translator under test
mdb_table_name == "foo"

\* dict.get(key) of an event section that is a dict: None when key is absent
section_get(section, key) == DictGet(section.v, key, PyNone)

get_document_key_of_document(ev) ==
    IF ev.documentKey.t = "dict" /\ ev.fullDocument.t = "dict"
    THEN [text |-> py_str(section_get(ev.fullDocument, "_id")), ok |-> TRUE]
    ELSE [text |-> "None", ok |-> ev.documentKey.t = "absent"]

\* MongoDBCDCTranslator.get_document_key: the text of the id, ok = FALSE
\* for the AttributeError raised when documentKey is not a dict
get_document_key(ev) ==
    LET document_key == IF ev.documentKey.t = "absent" THEN PyMap(<<>>) ELSE ev.documentKey
    IN  IF document_key.t # "dict"
        THEN [text |-> "", ok |-> FALSE]
        ELSE [text |-> py_str(section_get(document_key, "_id")), ok |-> TRUE]

\* MongoDBCDCTranslator.get_full_document
get_full_document(ev) == IF ev.fullDocument.t = "absent" THEN PyNone ELSE ev.fullDocument

\* MongoDBCDCTranslator.where_clause
mdb_where_clause(oid) == "oid = '" \o oid \o "'"

ReturnedNone_raises == Raise("ValueError", "Unknown CDC operation type: drop")

\* to_sql returned None
ReturnedNone == [NoCall EXCEPT !.kind = "None"]

\* SQLOperation(sql, parameters) of the MongoDB translator
mdb_operation(verb, sql, parameters) ==
    [NoCall EXCEPT !.kind = "SQLOperation", !.verb = verb, !.statement = sql,
                   !.parameters = parameters]

mdb_to_sql_replace_unknown(ev) ==
    LET present == ev.operationType.t # "absent" /\ py_truthy(ev.operationType)
        operation_type == py_str(ev.operationType)
        key == get_document_key(ev)
        record == decode_document(get_full_document(ev))
    IN  CASE ~present -> Raise("ValueError", "Operation Type missing or empty")
          [] present /\ operation_type = "insert" /\ key.ok ->
                mdb_operation("INSERT",
                    "INSERT INTO foo (oid, data) VALUES (:oid, :record);",
                    << <<"oid", PyStr(key.text)>>, <<"record", record>> >>)
          [] present /\ operation_type = "update" /\ key.ok ->
                mdb_operation("UPDATE",
                    "UPDATE foo SET data = :record WHERE " \o mdb_where_clause(key.text) \o ";",
                    << <<"record", record>> >>)
          [] present /\ operation_type = "delete" /\ key.ok ->
                mdb_operation("DELETE",
                    "DELETE FROM foo WHERE " \o mdb_where_clause(key.text) \o ";", PyNone)
          [] present /\ operation_type \in {"drop", "invalidate"} -> ReturnedNone
          [] OTHER -> Raise("ValueError", "Unknown CDC operation type: " \o operation_type)

\* MongoDBCDCTranslator.to_sql(event)
mdb_to_sql(ev) ==
    LET present == ev.operationType.t # "absent" /\ py_truthy(ev.operationType)
        operation_type == py_str(ev.operationType)
        key == get_document_key(ev)
        record == decode_document(get_full_document(ev))
        attribute_error == Raise("AttributeError", "'NoneType' object has no attribute 'get'")
    IN  CASE ~present -> Raise("ValueError", "Operation Type missing or empty")
          [] present /\ operation_type = "insert" ->
                IF ~key.ok THEN attribute_error
                ELSE mdb_operation("INSERT",
                        "INSERT INTO " \o mdb_table_name \o " (" \o ID_COLUMN \o ", "
                            \o DATA_COLUMN \o ") VALUES (:oid, :record);",
                        << <<"oid", PyStr(key.text)>>, <<"record", record>> >>)
          [] present /\ operation_type \in {"update", "replace"} ->
                IF ~key.ok THEN attribute_error
                ELSE mdb_operation("UPDATE",
                        "UPDATE " \o mdb_table_name \o " SET " \o DATA_COLUMN
                            \o " = :record WHERE " \o mdb_where_clause(key.text) \o ";",
                        << <<"record", record>> >>)
          [] present /\ operation_type = "delete" ->
                IF ~key.ok THEN attribute_error
                ELSE mdb_operation("DELETE",
                        "DELETE FROM " \o mdb_table_name \o " WHERE "
                            \o mdb_where_clause(key.text) \o ";",
                        PyNone)
          [] present /\ operation_type \in {"drop", "invalidate"} -> ReturnedNone
          [] OTHER -> Raise("ValueError", "Unknown CDC operation type: " \o operation_type)

-----------------------------------------------------------------------------
(* Inputs *)

Absent == [t |-> "absent", v |-> ""]

\* a data section from its columns, leaving out the absent ones
DataOf(items) == SelectSeq(items, LAMBDA item : item[2] # Absent)

RECURSIVE SeqsUpTo(_, _)
SeqsUpTo(S, n) ==
    IF n = 0 THEN {<<>>}
    ELSE LET shorter == SeqsUpTo(S, n - 1)
         IN  shorter \cup {Append(s, x) : s \in shorter, x \in S}

\* primary-key arrays of control events: at most MaxPkLen names
PrimaryKeyArrays == SeqsUpTo({"id", "name"}, MaxPkLen)

\* table-def.columns of the control events
TableDefColumns == << <<"age", "INT32">>, <<"attributes", "STRING">>,
                      <<"id", "INT32">>, <<"name", "STRING">> >>

JsonText == "{\"foo\": \"bar\"}"

\* data sections of events for public.foo
DataSections ==
    { DataOf(<< <<"attributes", a>>, <<"id", i>> >>)
      : a \in {Absent, PyStr(JsonText), PyStr("qux"), PyInt("30")},
        i \in {Absent, PyNone, PyInt("42")} }

Metadata(op, s, tb) ==
    [NoEvent EXCEPT !.has_metadata = TRUE, !.operation = op, !.schema = s, !.table = tb]

ControlEvent(op, s, tb, pk) ==
    [Metadata(op, s, tb) EXCEPT !.has_table_def = TRUE, !.columns = TableDefColumns,
                                !.primary_key = pk]

DataEvent(op, s, tb, d) == [Metadata(op, s, tb) EXCEPT !.data = d]

AwsdmsTable == "awsdms_apply_exceptions"

DMSEvents ==
    \* envelopes that lack metadata, operation kind, schema name or table name
    { NoEvent,
      Metadata(None, "public", "foo"), Metadata(None, "", AwsdmsTable),
      Metadata("insert", None, "foo"), Metadata("insert", "", "foo"),
      Metadata("insert", "public", None), Metadata("insert", "public", ""),
      Metadata("insert", None, None) }
    \cup
    \* control events, and events of unknown kind
    { ControlEvent("create-table", "public", "foo", pk) : pk \in PrimaryKeyArrays }
    \cup
    { ControlEvent("create-table", s, AwsdmsTable, pk) : s \in {None, ""}, pk \in {<<>>, <<"id">>} }
    \cup
    { ControlEvent("FOOBAR", "public", "foo", <<"name">>) }
    \cup
    { Metadata(op, "public", "foo") : op \in {"create-table", "drop-table", "FOOBAR"} }
    \cup
    { Metadata(op, "public", AwsdmsTable) : op \in {"drop-table", "FOOBAR"} }
    \cup
    \* data events
    { DataEvent(op, "public", "foo", d)
      : op \in {"load", "insert", "update", "delete"}, d \in DataSections }
    \cup
    { DataEvent(op, "", AwsdmsTable, d)
      : op \in {"insert", "update", "delete"}, d \in {<<>>, DataOf(<< <<"id", PyInt("42")>> >>)} }
    \cup
    \* data events that carry a table-def of their own
    { [ControlEvent(op, "public", "foo", <<"id">>)
       EXCEPT !.data = DataOf(<< <<"attributes", PyInt("30")>>, <<"id", PyInt("42")>> >>)]
      : op \in {"insert", "update"} }

\* the events threads pass to to_sql: create-table events for public.foo
\* declaring keys, and an insert
ConcurrentEvents ==
    { ControlEvent("create-table", "public", "foo", pk) : pk \in PrimaryKeyArrays }
    \cup { DataEvent("insert", "public", "foo", DataOf(<< <<"id", PyInt("42")>> >>)) }

\* the rows the source table public.foo may hold, keyed by id
SourceRows ==
    { << <<"id", PyInt(id)>>, <<"name", PyStr(name)>> >>
      : id \in {"45", "46"}, name \in {"Jane", "John"} }

Foo == TableAddress("public", "foo")
Awsdms == TableAddress("dms", AwsdmsTable)

\* what a caller passes for one argument of the constructor: nothing, an
\* entry for public.foo, or the same entry for both addresses
ArgumentsOf(v) == { <<>>, [a \in {Foo} |-> v], [a \in {Awsdms, Foo} |-> v] }

-----------------------------------------------------------------------------
(* Inputs of the DynamoDB CDC translator *)

\* Longest list or set a wire value holds.
MaxListLen == 2

KeyWire == Wire("S", "5F9E")

\* list elements
ListElements ==
    { Wire("S", "foo"), Wire("N", "1"), Wire("M", << <<"foo", Wire("S", "bar")>> >>),
      Wire("L", <<Wire("S", "foo"), Wire("N", "1")>>) }

\* the attribute that varies from image to image
VaryingValues ==
    { Wire("N", "84.84"), Wire("M", <<>>), EmptyWire, Wire("X", "") }
    \cup { Wire("L", items) : items \in SeqsUpTo(ListElements, MaxListLen) }
    \cup { Wire("SS", items) : items \in SeqsUpTo({"location_1", "location_2"}, MaxListLen) }
    \cup { Wire("NS", items) : items \in SeqsUpTo({"1", "2", "1.00000000000000000001"}, MaxListLen) }

NewImages ==
    { << <<"id", KeyWire>>, <<"value", x>> >> : x \in VaryingValues }
    \cup { << <<"value", x>> >> : x \in {Wire("N", "84.84"), Wire("L", <<>>)} }

DynamoDBEvent(source, name, keys, image) ==
    [eventSource |-> source, eventName |-> name,
     has_new_image |-> TRUE, NewImage |-> image, has_keys |-> TRUE, Keys |-> keys]

NoDynamoDBEvent ==
    [eventSource |-> None, eventName |-> None,
     has_new_image |-> FALSE, NewImage |-> <<>>, has_keys |-> FALSE, Keys |-> <<>>]

DynamoDBEvents ==
    { DynamoDBEvent("aws:dynamodb", name, << <<"id", KeyWire>> >>, image)
      : name \in {"INSERT", "MODIFY", "REMOVE", "FOOBAR"}, image \in NewImages }
    \cup
    { [NoDynamoDBEvent EXCEPT !.eventSource = "aws:dynamodb", !.eventName = name]
      : name \in {"INSERT", "MODIFY", "REMOVE"} }
    \cup
    { [NoDynamoDBEvent EXCEPT !.eventSource = "foo:bar"],
      DynamoDBEvent("foo:bar", "INSERT", << <<"id", KeyWire>> >>, << <<"id", KeyWire>> >>) }

\* constructor calls without a key schema and with one of no, one or two keys
KeySchemaArguments ==
    { NoKeySchema,
      KeySchema(TRUE, <<>>),
      KeySchema(TRUE, << <<"id", "S">> >>),
      KeySchema(TRUE, << <<"id", "S">>, <<"timestamp", "N">> >>) }

\* iteration orders of the sets the inputs hold
SetOrders ==
    { strings \o numbers
      : strings \in { <<PyStr("location_1"), PyStr("location_2")>>,
                      <<PyStr("location_2"), PyStr("location_1")>> },
        numbers \in { <<PyFloat("1.0"), PyFloat("2.0")>>,
                      <<PyFloat("2.0"), PyFloat("1.0")>> } }

-----------------------------------------------------------------------------
(* commons_codec.model: ColumnTypeMapStore *)

\* A ColumnTypeMapStore is the sequence of its items <<address, columns>>, in
\* insertion order, columns being the dict of (column, ColumnType value) pairs.

\* str.find(sub) from position i on, counted from 1; 0 when there is none
RECURSIVE find(_, _, _)
find(s, sub, i) ==
    IF i + Len(sub) - 1 > Len(s) THEN 0
    ELSE IF SubSeq(s, i, i + Len(sub) - 1) = sub THEN i
    ELSE find(s, sub, i + 1)

\* str.split(sep)
RECURSIVE split(_, _)
split(s, sep) ==
    LET i == find(s, sep, 1)
    IN  IF i = 0 THEN <<s>>
        ELSE <<SubSeq(s, 1, i - 1)>> \o split(SubSeq(s, i + Len(sep), Len(s)), sep)

\* json.dumps of a dict of strings to strings (none of the model's strings
\* holds a character JSON escapes)
dumps(data) ==
    "{" \o Join([i \in 1..Len(data) |-> "\"" \o data[i][1] \o "\": \"" \o data[i][2] \o "\""], ", ")
        \o "}"

\* json.loads of the text of such a dict
loads(text) ==
    LET inner == SubSeq(text, 2, Len(text) - 1)
        members == split(SubSeq(inner, 2, Len(inner) - 1), "\", \"")
        pairs == [i \in 1..Len(members) |-> split(members[i], "\": \"")]
    IN  IF inner = "" THEN <<>>
        ELSE [i \in 1..Len(pairs) |-> <<pairs[i][1], pairs[i][2]>>]

ColumnTypes == {"map", "object"}

\* ColumnTypeMapStore.add(table, column, type_)
ctms_add(items, table, column, type_) ==
    LET present == IF DictHas(items, table) THEN items ELSE Append(items, <<table, <<>> >>)
    IN  DictSet(present, table, DictSet(DictGet(present, table, <<>>), column, type_))

\* ColumnTypeMapStore.to_dict, lines 57-59: the columns of one table
RECURSIVE to_dict_columns(_, _, _)
to_dict_columns(tbl, columns, data) ==
    IF columns = <<>> THEN data
    ELSE to_dict_columns(tbl, Tail(columns),
                         DictSet(data, tbl \o ":" \o columns[1][1], columns[1][2]))

\* ColumnTypeMapStore.to_dict, filling data
RECURSIVE ctms_to_dict(_, _)
ctms_to_dict(items, data) ==
    IF items = <<>> THEN data
    ELSE ctms_to_dict(Tail(items),
                      to_dict_columns(items[1][1][1] \o ":" \o items[1][1][2], items[1][2], data))

\* ColumnTypeMapStore.to_json
ctms_to_json(items) == dumps(ctms_to_dict(items, <<>>))

\* what from_dict and from_json return: a store, None, or the ValueError of
\* a key that is not three parts or of a type that is no ColumnType
ReturnedStore(items) == [NoCall EXCEPT !.kind = "ColumnTypeMapStore", !.parameters = items]

\* ColumnTypeMapStore.from_dict, lines 70-72: the loop over data.items()
RECURSIVE from_dict_items(_, _)
from_dict_items(data, ctms) ==
    IF data = <<>> THEN ReturnedStore(ctms)
    ELSE LET parts == split(data[1][1], ":")
         IN  IF Len(parts) # 3
             THEN Raise("ValueError", "too many values to unpack (expected 3)")
             ELSE IF data[1][2] \notin ColumnTypes
             THEN Raise("ValueError", "'" \o data[1][2] \o "' is not a valid ColumnType")
             ELSE from_dict_items(Tail(data),
                                  ctms_add(ctms, TableAddress(parts[1], parts[2]), parts[3], data[1][2]))

\* ColumnTypeMapStore.from_dict(data)
ctms_from_dict(data) ==
    IF data.t = "NoneType" \/ data.v = <<>> THEN [NoCall EXCEPT !.kind = "None"]
    ELSE from_dict_items(data.v, <<>>)

\* ColumnTypeMapStore.from_json(payload)
ctms_from_json(payload) ==
    IF ~py_truthy(payload) THEN [NoCall EXCEPT !.kind = "None"]
    ELSE ctms_from_dict(PyMap(loads(payload.v)))

-----------------------------------------------------------------------------
(* Inputs of commons_codec.model *)

\* table addresses with and without a schema name
TableAddresses ==
    { TableAddress(schema, "foo") : schema \in {None, "", "public"} }

\* the dict of column types a store holds for one table
ColumnMaps ==
    { <<>>, << <<"a:b", "map">> >> }
    \cup { << <<"attributes", x>> >> : x \in ColumnTypes }
    \cup { << <<"attributes", x>>, <<"tags", y>> >> : x \in ColumnTypes, y \in ColumnTypes }

\* stores of no, one or two tables; NoTable marks the table a store lacks
NoTable == << <<"", "">> >>

Stores ==
    { SelectSeq(<< <<Foo, foo>>, <<Awsdms, awsdms>> >>, LAMBDA item : item[2] # NoTable)
      : foo \in ColumnMaps \cup {NoTable}, awsdms \in ColumnMaps \cup {NoTable} }

\* Longest list of key-column names passed to from_record.
MaxKeyNames == 2

\* what a field of a record holds: nothing, a string, a list of one element
\* type, a list of two
FieldValues ==
    { Absent, PyStr("foo"),
      TaggableList(<<PyStr("foo"), PyStr("bar")>>, FALSE),
      TaggableList(<<PyFloat("1.0"), PyStr("foo")>>, TRUE) }

Records ==
    { DataOf(<< <<"id", id>>, <<"device", device>>, <<"tags", tags>> >>)
      : id \in FieldValues, device \in FieldValues, tags \in FieldValues }

KeyNames == SeqsUpTo({"id", "device", "missing"}, MaxKeyNames)

-----------------------------------------------------------------------------
(* Inputs of the MongoDB CDC translator *)

OidA == "669683c2b0750b2c84893f3e"
OidB == "669693c5002ef91ea9c7a562"

MongoDBEvent(key, document, operation) ==
    [documentKey |-> key, fullDocument |-> document, operationType |-> operation]

NoMongoDBEvent == MongoDBEvent(Absent, Absent, Absent)

\* operationType: absent, falsy, the kinds the translator knows, others
OperationTypes ==
    { Absent, PyNone, PyStr(""), PyInt("0"), PyInt("5") }
    \cup { PyStr(kind) : kind \in {"insert", "update", "replace", "delete",
                                     "drop", "invalidate", "foobar"} }

\* documentKey: absent, not a dict, without _id, with an _id of some type
DocumentKeys ==
    { Absent, PyNone, PyMap(<<>>) }
    \cup { PyMap(<< <<"_id", id>> >>) : id \in {ObjectId(OidA), PyStr("5F9E"), PyNone} }

\* fullDocument: absent, or a document with an _id of its own
FullDocuments ==
    { Absent,
      PyMap(<< <<"_id", ObjectId(OidA)>>, <<"id", PyStr("5F9E")>> >>),
      PyMap(<< <<"_id", ObjectId(OidB)>>,
               <<"meta", PyMap(<< <<"timestamp", datetime("2024-07-11T23:17:42")>>,
                                  <<"device", PyStr("foo")>> >>)>> >>),
      PyMap(<< <<"_id", PyMap(<< <<"$oid", PyStr(OidB)>> >>)>>,
               <<"tags", PyList(<<PyStr("deleted")>>)>> >>) }

\* an instant: seconds since the epoch, rounded down, and the milliseconds
\* past them
Instant(seconds, millis) == [seconds |-> seconds, millis |-> millis]

\* the instants dates denote: the epoch, the second before it, the instants of
\* the tests, and the ends of leap days
Instants ==
    { Instant(seconds, millis)
      : seconds \in {0, -1, 951782400, 1180690093, 1443004362, 1655210544, 1709251199},
        millis \in {0, 1, 987, 999} }

\* the decimal text of the instant as milliseconds since the epoch
millis_text(instant) ==
    IF instant.seconds > 0 THEN ToString(instant.seconds) \o zfill(instant.millis, 3)
    ELSE IF instant.seconds = 0 THEN ToString(instant.millis)
    ELSE IF instant.millis = 0 THEN ToString(instant.seconds) \o "000"
    ELSE IF instant.seconds = -1 THEN "-" \o ToString(1000 - instant.millis)
    ELSE ToString(instant.seconds + 1) \o zfill(1000 - instant.millis, 3)

\* the offsets an ISO-8601 string may end with, and their seconds
Offsets == { <<"Z", 0>>, <<"", 0>>, <<"+02:00", 7200>>, <<"-0530", -19800>>, <<"+01", 3600>> }

\* the ISO-8601 text of the instant at an offset, the fraction given to the
\* millisecond or, with further digits, to the microsecond
iso_text(instant, offset, digits) ==
    utcfromtimestamp(instant.seconds + offset[2], 0)
    \o (IF instant.millis = 0 /\ digits = "" THEN ""
        ELSE "." \o zfill(instant.millis, 3) \o digits)
    \o offset[1]

ExtendedDate(item) == PyMap(<< <<"$date", item>> >>)

\* dates as decode_document is given them: $numberLong form, bare int, and
\* ISO-8601 strings; each with the instant it denotes
DateInputs ==
    { <<instant, ExtendedDate(PyMap(<< <<"$numberLong", PyStr(millis_text(instant))>> >>))>>
      : instant \in Instants }
    \cup { <<instant, ExtendedDate(PyInt(millis_text(instant)))>> : instant \in Instants }
    \cup { <<instant, ExtendedDate(PyStr(iso_text(instant, offset, digits)))>>
           : instant \in Instants, offset \in Offsets, digits \in {"", "456"} }

MongoDBEvents ==
    { MongoDBEvent(key, document, operation)
      : key \in DocumentKeys, document \in FullDocuments, operation \in OperationTypes }

-----------------------------------------------------------------------------
(* The translators as state machines *)

\* the threads that call to_sql on the one translator
Threads == {"a", "b"}

\* a thread outside to_sql
IdleThread == [ev |-> NoEvent, pc |-> "idle", index |-> 0]

\* no to_sql call under way
ThreadsIdle ==
    /\ threads = [thread \in Threads |-> IdleThread]
    /\ overlapped = FALSE

\* no table replicated
SinkIdle ==
    /\ source_rows = {}
    /\ sink_rows = {}
    /\ before_image = <<>>

\* no DynamoDB CDC translator at work
DynamoDBIdle ==
    /\ set_order = <<PyStr("location_1"), PyStr("location_2"), PyFloat("1.0"), PyFloat("2.0")>>
    /\ ddb_event_in = NoDynamoDBEvent
    /\ ddb_event = NoDynamoDBEvent
    /\ ddb_outcome = NoCall
    /\ ddb_outcome_first = NoCall
    /\ ddb_key_schema = NoKeySchema
    /\ ddb_translator = NoCall
    /\ ddb_ddl_outcome = NoCall

\* no function of commons_codec.model called by itself
ModelIdle ==
    /\ cm_call = "none"
    /\ ur_record = <<>>
    /\ ur_keys = <<>>
    /\ ur_result = NoUniversalRecord
    /\ ctms_store = <<>>
    /\ ctms_argument = PyNone
    /\ ctms_result = NoCall
    /\ fqn_address = TableAddress(None, None)
    /\ fqn_outcome = NoCall

\* no MongoDB CDC translator at work
\* decode_document not called
ConverterIdle ==
    /\ cv_instant = Instant(0, 0)
    /\ cv_value = Absent
    /\ cv_result = Absent

MongoDBIdle ==
    /\ mdb_event_in = NoMongoDBEvent
    /\ mdb_outcome = NoCall
    /\ ConverterIdle

\* DMSTranslatorCrateDB.__init__
Init ==
    /\ \E both \in BOOLEAN :
        LET Args(v) == {a \in ArgumentsOf(v) : a = <<>> \/ (Awsdms \in DOMAIN a <=> both)}
        IN  /\ primary_keys \in Args(<<"id">>)
            /\ column_types \in Args(<< <<"attributes", "OBJECT">> >>)
            /\ mapping_strategy \in Args("UNIVERSAL")
            /\ ignore_ddl \in Args(TRUE)
    /\ primary_keys_caller = primary_keys
    /\ column_types_caller = column_types
    /\ pk_shared = {}
    /\ primary_keys_supplied = primary_keys
    /\ column_types_supplied = column_types
    /\ event_in = NoEvent
    /\ event = NoEvent
    /\ outcome = NoCall
    /\ ThreadsIdle
    /\ SinkIdle
    /\ DynamoDBIdle
    /\ MongoDBIdle
    /\ ModelIdle

store == [primary_keys |-> primary_keys, column_types |-> column_types,
          mapping_strategy |-> mapping_strategy, ignore_ddl |-> ignore_ddl,
          primary_keys_caller |-> primary_keys_caller,
          column_types_caller |-> column_types_caller, pk_shared |-> pk_shared]

\* one call translator.to_sql(ev) of a DMSTranslatorCrateDB
DMSToSql(ev) ==
    \E result \in {to_sql(store, ev)} :
        /\ primary_keys' = result.st.primary_keys
        /\ column_types' = result.st.column_types
        /\ ignore_ddl' = result.st.ignore_ddl
        /\ primary_keys_caller' = result.st.primary_keys_caller
        /\ column_types_caller' = result.st.column_types_caller
        /\ pk_shared' = result.st.pk_shared
        /\ event_in' = ev
        /\ event' = result.event
        /\ outcome' = result.outcome
        /\ UNCHANGED <<mapping_strategy, primary_keys_supplied, column_types_supplied>>
        /\ UNCHANGED th_vars
        /\ UNCHANGED sink_vars
        /\ UNCHANGED ddb_vars
        /\ UNCHANGED mdb_vars
        /\ UNCHANGED cm_vars

Next == \E ev \in DMSEvents : DMSToSql(ev)

Spec == Init /\ [][Next]_vars

\* DynamoDBCDCTranslator.__init__, in a process with some iteration order of sets
InitDynamoDB ==
    /\ primary_keys = <<>>
    /\ column_types = <<>>
    /\ mapping_strategy = <<>>
    /\ ignore_ddl = <<>>
    /\ primary_keys_caller = <<>>
    /\ column_types_caller = <<>>
    /\ pk_shared = {}
    /\ primary_keys_supplied = <<>>
    /\ column_types_supplied = <<>>
    /\ event_in = NoEvent
    /\ event = NoEvent
    /\ outcome = NoCall
    /\ ThreadsIdle
    /\ SinkIdle
    /\ set_order \in SetOrders
    /\ ddb_event_in = NoDynamoDBEvent
    /\ ddb_event = NoDynamoDBEvent
    /\ ddb_outcome = NoCall
    /\ ddb_outcome_first = NoCall
    /\ ddb_key_schema = NoKeySchema
    /\ ddb_translator = NoCall
    /\ ddb_ddl_outcome = NoCall
    /\ MongoDBIdle
    /\ ModelIdle

\* one call translator.to_sql(ev) of a DynamoDBCDCTranslator
DynamoDBToSql(ev) ==
    \E result \in {ddb_to_sql(ev, set_order)} :
        /\ ddb_event_in' = ev
        /\ ddb_event' = result.event
        /\ ddb_outcome' = result.outcome
        /\ ddb_outcome_first' = NoCall
        /\ UNCHANGED set_order
        /\ UNCHANGED ddb_full_vars
        /\ UNCHANGED dms_vars
        /\ UNCHANGED mdb_vars
        /\ UNCHANGED cm_vars

\* one call DynamoDBFullLoadTranslator(table_name="foo", ...) with or without
\* the keyword argument primary_key_schema
DynamoDBFullLoadInit(arguments) ==
    /\ ddb_key_schema' = arguments
    /\ ddb_translator' = DynamoTranslatorBase_init(arguments)
    /\ ddb_ddl_outcome' = NoCall
    /\ UNCHANGED ddb_cdc_vars
    /\ UNCHANGED dms_vars
    /\ UNCHANGED mdb_vars
    /\ UNCHANGED cm_vars

\* one read of translator.sql_ddl of the translator last constructed
DynamoDBSqlDdl ==
    /\ ddb_translator.kind = "DynamoDBFullLoadTranslator"
    /\ ddb_ddl_outcome' = ddb_sql_ddl
    /\ UNCHANGED <<ddb_key_schema, ddb_translator>>
    /\ UNCHANGED ddb_cdc_vars
    /\ UNCHANGED dms_vars
    /\ UNCHANGED mdb_vars
    /\ UNCHANGED cm_vars

NextDynamoDB ==
    \/ \E ev \in DynamoDBEvents : DynamoDBToSql(ev)
    \/ \E arguments \in KeySchemaArguments : DynamoDBFullLoadInit(arguments)
    \/ DynamoDBSqlDdl

SpecDynamoDB == InitDynamoDB /\ [][NextDynamoDB]_vars

\* translator.to_sql(ev) once more, with the event object of the call before
\* as that call left it
DynamoDBToSqlAgain ==
    /\ ddb_outcome.kind # "NoCall"
    /\ ddb_outcome_first = NoCall
    /\ \E result \in {ddb_to_sql(ddb_event, set_order)} :
        /\ ddb_event_in' = ddb_event
        /\ ddb_event' = result.event
        /\ ddb_outcome' = result.outcome
        /\ ddb_outcome_first' = ddb_outcome
    /\ UNCHANGED set_order
    /\ UNCHANGED ddb_full_vars
    /\ UNCHANGED dms_vars
    /\ UNCHANGED mdb_vars
    /\ UNCHANGED cm_vars

NextRepeat ==
    \/ \E ev \in DynamoDBEvents : DynamoDBToSql(ev)
    \/ DynamoDBToSqlAgain

SpecRepeat == InitDynamoDB /\ [][NextRepeat]_vars

\* no DMS translator at work
DMSIdle ==
    /\ primary_keys = <<>>
    /\ column_types = <<>>
    /\ mapping_strategy = <<>>
    /\ ignore_ddl = <<>>
    /\ primary_keys_caller = <<>>
    /\ column_types_caller = <<>>
    /\ pk_shared = {}
    /\ primary_keys_supplied = <<>>
    /\ column_types_supplied = <<>>
    /\ event_in = NoEvent
    /\ event = NoEvent
    /\ outcome = NoCall
    /\ ThreadsIdle
    /\ SinkIdle

\* DMSTranslatorCrateDB.__init__ without arguments, to be shared by threads
InitThreads ==
    /\ DMSIdle
    /\ DynamoDBIdle
    /\ MongoDBIdle
    /\ ModelIdle

\* the store and the variables no step of a thread changes
ThreadFrame ==
    /\ UNCHANGED sink_vars
    /\ UNCHANGED <<mapping_strategy, primary_keys_supplied, column_types_supplied>>
    /\ UNCHANGED ddb_vars
    /\ UNCHANGED mdb_vars
    /\ UNCHANGED cm_vars

\* the declared keys the call of a thread walks through
declared_keys(thread) ==
    IF threads[thread].ev.has_table_def THEN threads[thread].ev.primary_key ELSE <<>>

\* DMSTranslatorCrateDBRecordBase.__init__, line 143: pk not in self.primary_keys
pk_missing_always(keys, pk) == TRUE

pk_missing(keys, pk) == pk \notin Range(keys)

\* a thread enters to_sql(ev): the factory makes the bucket and the record
\* object, whose __init__ runs up to the loop over the declared keys (lines
\* 127-140)
ThreadEnter(thread, ev) ==
    LET address == address_of(ev)
    IN  /\ threads[thread].pc = "idle"
        /\ threads' = [threads EXCEPT ![thread] = [ev |-> ev, pc |-> "check", index |-> 1]]
        /\ overlapped' = (overlapped \/ \E other \in Threads \ {thread} : threads[other].pc # "idle")
        /\ primary_keys' = setdefault(primary_keys, address, <<>>)
        /\ column_types' = setdefault(column_types, address, <<>>)
        /\ ignore_ddl' = setdefault(ignore_ddl, address, FALSE)
        /\ UNCHANGED <<primary_keys_caller, column_types_caller, pk_shared, event_in, event, outcome>>
        /\ ThreadFrame

\* lines 142-143: the loop takes the next declared key and tests whether the
\* list holds it; past the last key __init__ returns
ThreadCheck(thread) ==
    LET me == threads[thread]
        address == address_of(me.ev)
        pks == declared_keys(thread)
    IN  /\ me.pc = "check"
        /\ threads' = [threads EXCEPT ![thread] =
                IF ignore_ddl[address] \/ me.index > Len(pks) THEN [me EXCEPT !.pc = "to_sql"]
                ELSE IF pk_missing(primary_keys[address], pks[me.index]) THEN [me EXCEPT !.pc = "append"]
                ELSE [me EXCEPT !.index = me.index + 1]]
        /\ UNCHANGED <<dms_store, event_in, event, outcome, overlapped, sink_vars>>
        /\ UNCHANGED <<primary_keys_supplied, column_types_supplied>>
        /\ UNCHANGED ddb_vars
        /\ UNCHANGED mdb_vars
        /\ UNCHANGED cm_vars

\* line 144: self.primary_keys.append(pk)
ThreadAppend(thread) ==
    LET me == threads[thread]
        address == address_of(me.ev)
    IN  /\ me.pc = "append"
        /\ primary_keys' = [primary_keys EXCEPT ![address] = Append(@, declared_keys(thread)[me.index])]
        /\ threads' = [threads EXCEPT ![thread] = [me EXCEPT !.pc = "check", !.index = me.index + 1]]
        /\ UNCHANGED <<column_types, ignore_ddl, primary_keys_caller, column_types_caller, pk_shared>>
        /\ UNCHANGED <<event_in, event, outcome, overlapped>>
        /\ ThreadFrame

\* DMSTranslatorCrateDBRecordBase.to_sql: the handler of the operation runs
\* and the call returns or raises
ThreadToSql(thread) ==
    LET me == threads[thread]
        address == address_of(me.ev)
    IN  /\ me.pc = "to_sql"
        /\ \E result \in {record_to_sql(store, create_strategy(mapping_strategy, address), address, me.ev)} :
              /\ primary_keys' = result.st.primary_keys
              /\ column_types' = result.st.column_types
              /\ ignore_ddl' = result.st.ignore_ddl
              /\ primary_keys_caller' = result.st.primary_keys_caller
              /\ column_types_caller' = result.st.column_types_caller
              /\ pk_shared' = result.st.pk_shared
              /\ event_in' = me.ev
              /\ event' = result.event
              /\ outcome' = result.outcome
        /\ threads' = [threads EXCEPT ![thread] = IdleThread]
        /\ UNCHANGED overlapped
        /\ ThreadFrame

NextThreads ==
    \E thread \in Threads :
        \/ \E ev \in ConcurrentEvents : ThreadEnter(thread, ev)
        \/ ThreadCheck(thread)
        \/ ThreadAppend(thread)
        \/ ThreadToSql(thread)

SpecThreads == InitThreads /\ [][NextThreads]_vars

\* DMSTranslatorCrateDB(primary_keys={public.foo: ["id"]}, mapping_strategy=...)
\* replicating an empty source table public.foo into an empty sink table
InitSink ==
    /\ primary_keys = [a \in {Foo} |-> <<"id">>]
    /\ column_types = <<>>
    /\ mapping_strategy \in { <<>>, [a \in {Foo} |-> "UNIVERSAL"] }
    /\ ignore_ddl = <<>>
    /\ primary_keys_caller = primary_keys
    /\ column_types_caller = <<>>
    /\ pk_shared = {}
    /\ primary_keys_supplied = primary_keys
    /\ column_types_supplied = <<>>
    /\ event_in = NoEvent
    /\ event = NoEvent
    /\ outcome = NoCall
    /\ ThreadsIdle
    /\ SinkIdle
    /\ DynamoDBIdle
    /\ MongoDBIdle
    /\ ModelIdle

\* DMS reports a change of the source table: the event goes through to_sql
\* and the statement returned is executed on the sink
Replicate(ev, image) ==
    \E result \in {to_sql(store, ev)} :
        /\ primary_keys' = result.st.primary_keys
        /\ column_types' = result.st.column_types
        /\ ignore_ddl' = result.st.ignore_ddl
        /\ primary_keys_caller' = result.st.primary_keys_caller
        /\ column_types_caller' = result.st.column_types_caller
        /\ pk_shared' = result.st.pk_shared
        /\ event_in' = ev
        /\ event' = result.event
        /\ outcome' = result.outcome
        /\ before_image' = image
        /\ sink_rows' = sink_execute(sink_rows, result.outcome,
                                     create_strategy(mapping_strategy, Foo), primary_keys[Foo])
        /\ UNCHANGED <<mapping_strategy, primary_keys_supplied, column_types_supplied>>
        /\ UNCHANGED th_vars
        /\ UNCHANGED ddb_vars
        /\ UNCHANGED mdb_vars
        /\ UNCHANGED cm_vars

\* INSERT INTO foo at the source
SourceInsert(row) ==
    /\ \A held \in source_rows : row_key(held, <<"id">>) # row_key(row, <<"id">>)
    /\ source_rows' = source_rows \cup {row}
    /\ Replicate(DataEvent("insert", "public", "foo", row), <<>>)

\* UPDATE foo at the source: the event carries the row as it is now, and in
\* its before-image the key the row had when the update changed it
SourceUpdate(old, new) ==
    /\ old \in source_rows
    /\ new # old
    /\ \A held \in source_rows \ {old} : row_key(held, <<"id">>) # row_key(new, <<"id">>)
    /\ source_rows' = (source_rows \ {old}) \cup {new}
    /\ Replicate(DataEvent("update", "public", "foo", new),
                 IF row_key(old, <<"id">>) = row_key(new, <<"id">>) THEN <<>>
                 ELSE << <<"id", DictGet(old, "id", PyNone)>> >>)

\* DELETE FROM foo at the source: the event carries the key, the other
\* columns null
SourceDelete(row) ==
    /\ row \in source_rows
    /\ source_rows' = source_rows \ {row}
    /\ Replicate(DataEvent("delete", "public", "foo",
                           << <<"id", DictGet(row, "id", PyNone)>>, <<"name", PyNone>> >>), <<>>)

NextSink ==
    \/ \E row \in SourceRows : SourceInsert(row)
    \/ \E old \in SourceRows, new \in SourceRows : SourceUpdate(old, new)
    \/ \E row \in SourceRows : SourceDelete(row)

SpecSink == InitSink /\ [][NextSink]_vars

\* MongoDBCDCTranslator(table_name="foo")
InitMongoDB ==
    /\ DMSIdle
    /\ DynamoDBIdle
    /\ MongoDBIdle
    /\ ModelIdle

\* one call translator.to_sql(ev) of a MongoDBCDCTranslator
MongoDBToSql(ev) ==
    /\ mdb_event_in' = ev
    /\ mdb_outcome' = mdb_to_sql(ev)
    /\ UNCHANGED cv_vars
    /\ UNCHANGED dms_vars
    /\ UNCHANGED ddb_vars
    /\ UNCHANGED cm_vars

NextMongoDB == \E ev \in MongoDBEvents : MongoDBToSql(ev)

SpecMongoDB == InitMongoDB /\ [][NextMongoDB]_vars

\* a converter with timestamp_to_epoch and timestamp_use_milliseconds set, about
\* to decode one date
InitConvert ==
    /\ DMSIdle
    /\ DynamoDBIdle
    /\ ModelIdle
    /\ mdb_event_in = NoMongoDBEvent
    /\ mdb_outcome = NoCall
    /\ \E input \in DateInputs :
          /\ cv_instant = input[1]
          /\ cv_value = input[2]
    /\ cv_result = Absent

\* MongoDBCrateDBConverter.decode_document(value)
DecodeDocument ==
    /\ cv_result = Absent
    /\ cv_result' = decode_document(cv_value)
    /\ UNCHANGED <<cv_instant, cv_value, mdb_event_in, mdb_outcome>>
    /\ UNCHANGED dms_vars
    /\ UNCHANGED ddb_vars
    /\ UNCHANGED cm_vars

NextConvert == DecodeDocument

SpecConvert == InitConvert /\ [][NextConvert]_vars

\* no translator at work: the functions of commons_codec.model by themselves
InitModel ==
    /\ DMSIdle
    /\ DynamoDBIdle
    /\ MongoDBIdle
    /\ ModelIdle

\* one call UniversalRecord.from_record(record, keys)
FromRecord(record, keys) ==
    /\ cm_call' = "from_record"
    /\ ur_record' = record
    /\ ur_keys' = keys
    /\ ur_result' = from_record(record, keys)
    /\ UNCHANGED ctms_vars
    /\ UNCHANGED ta_vars
    /\ UNCHANGED dms_vars
    /\ UNCHANGED ddb_vars
    /\ UNCHANGED mdb_vars

NextModel ==
    \E record \in Records, keys \in KeyNames : FromRecord(record, keys)

SpecModel == InitModel /\ [][NextModel]_vars

\* one call store.to_json() of a ColumnTypeMapStore holding items
ToJson(items) ==
    /\ cm_call' = "to_json"
    /\ ctms_store' = items
    /\ ctms_argument' = PyStr(ctms_to_json(items))
    /\ ctms_result' = NoCall
    /\ UNCHANGED ur_vars
    /\ UNCHANGED ta_vars
    /\ UNCHANGED dms_vars
    /\ UNCHANGED ddb_vars
    /\ UNCHANGED mdb_vars

\* one call ColumnTypeMapStore.from_json(payload)
FromJson(payload) ==
    /\ cm_call' = "from_json"
    /\ ctms_argument' = payload
    /\ ctms_result' = ctms_from_json(payload)
    /\ UNCHANGED ctms_store
    /\ UNCHANGED ur_vars
    /\ UNCHANGED ta_vars
    /\ UNCHANGED dms_vars
    /\ UNCHANGED ddb_vars
    /\ UNCHANGED mdb_vars

\* one call ColumnTypeMapStore.from_dict(data)
FromDict(data) ==
    /\ cm_call' = "from_dict"
    /\ ctms_argument' = data
    /\ ctms_result' = ctms_from_dict(data)
    /\ UNCHANGED ctms_store
    /\ UNCHANGED ur_vars
    /\ UNCHANGED ta_vars
    /\ UNCHANGED dms_vars
    /\ UNCHANGED ddb_vars
    /\ UNCHANGED mdb_vars

\* a store is serialised; what it returned, or an empty payload, is parsed
NextStore ==
    \/ \E items \in Stores : ToJson(items)
    \/ \E payload \in {ctms_argument, PyStr(""), PyNone} :
            payload.t \in {"str", "NoneType"} /\ FromJson(payload)
    \/ \E data \in {PyNone, PyMap(<<>>), PyMap(ctms_to_dict(ctms_store, <<>>))} : FromDict(data)

SpecStore == InitModel /\ [][NextStore]_vars

\* DMSTranslatorCrateDB.__init__ with no schema information, and with or
\* without a mapping strategy
InitFqn ==
    /\ primary_keys = <<>>
    /\ column_types = <<>>
    /\ mapping_strategy \in ArgumentsOf("UNIVERSAL")
    /\ ignore_ddl = <<>>
    /\ primary_keys_caller = <<>>
    /\ column_types_caller = <<>>
    /\ pk_shared = {}
    /\ primary_keys_supplied = <<>>
    /\ column_types_supplied = <<>>
    /\ event_in = NoEvent
    /\ event = NoEvent
    /\ outcome = NoCall
    /\ ThreadsIdle
    /\ SinkIdle
    /\ DynamoDBIdle
    /\ MongoDBIdle
    /\ ModelIdle

\* one read of address.fqn
Fqn(address) ==
    /\ cm_call' = "fqn"
    /\ fqn_address' = address
    /\ fqn_outcome' = (IF fqn(address).ok
                       THEN [NoCall EXCEPT !.kind = "str", !.statement = fqn(address).text]
                       ELSE Raise("ValueError", fqn(address).text))
    /\ UNCHANGED ur_vars
    /\ UNCHANGED ctms_vars
    /\ UNCHANGED dms_vars
    /\ UNCHANGED ddb_vars
    /\ UNCHANGED mdb_vars

\* the translator translates events while table addresses are asked their fqn
NextFqn ==
    \/ \E ev \in DMSEvents : DMSToSql(ev)
    \/ \E address \in TableAddresses : Fqn(address)

SpecFqn == InitFqn /\ [][NextFqn]_vars

-----------------------------------------------------------------------------
(* Vocabulary of the properties *)

NoDuplicates(seq) == \A i, j \in 1..Len(seq) : seq[i] = seq[j] => i = j

IsPrefix(p, seq) == Len(p) <= Len(seq) /\ SubSeq(seq, 1, Len(p)) = p

\* position of the first occurrence of x in seq
FirstIndex(seq, x) == CHOOSE i \in 1..Len(seq) : seq[i] = x /\ \A j \in 1..(i - 1) : seq[j] # x

\* number of places at which text sub occurs in text s
RECURSIVE Occurrences(_, _)
Occurrences(s, sub) ==
    IF Len(s) < Len(sub) THEN 0
    ELSE (IF startswith(s, sub) THEN 1 ELSE 0) + Occurrences(SubSeq(s, 2, Len(s)), sub)

\* the text of s after the first occurrence of mark ("" when there is none)
RECURSIVE TextAfter(_, _)
TextAfter(s, mark) ==
    IF Len(s) < Len(mark) THEN ""
    ELSE IF startswith(s, mark) THEN SubSeq(s, Len(mark) + 1, Len(s))
    ELSE TextAfter(SubSeq(s, 2, Len(s)), mark)

\* the text of s before the first occurrence of mark (s when there is none)
RECURSIVE TextBefore(_, _)
TextBefore(s, mark) ==
    IF Len(s) < Len(mark) THEN s
    ELSE IF startswith(s, mark) THEN ""
    ELSE SubSeq(s, 1, 1) \o TextBefore(SubSeq(s, 2, Len(s)), mark)

SetText(statement) == TextBefore(TextAfter(statement, " SET "), " WHERE ")

WhereText(statement) == TextBefore(TextAfter(statement, " WHERE "), ";")

\* the last call got past the sanity checks of the bucket
Dispatched == outcome.kind \notin {"NoCall", "MessageFormatError"}

Returned(verb) == outcome.kind = "SQLOperation" /\ outcome.verb = verb

\* the address the last call worked on, its key list, its strategy
address == address_of(event)

keys_held == StoreGet(primary_keys, address, <<>>)

types_held == StoreGet(column_types, address, <<>>)

strategy_used == create_strategy(mapping_strategy, address)

DataOperations == {"load", "insert", "update", "delete"}

-----------------------------------------------------------------------------
(* C1 *)

\* C1: right after a drop-table event was processed for an address whose
\* ignore_ddl flag is unset, the primary-key list and the column-type map held
\* for the address are the ones the caller supplied to the constructor (empty
\* when none was supplied), whatever events came before.
C1_DropRestoresSupplied ==
    Returned("DROP") =>
        /\ keys_held = StoreGet(primary_keys_supplied, address, <<>>)
        /\ types_held = StoreGet(column_types_supplied, address, <<>>)

-----------------------------------------------------------------------------
(* C2 *)

\* C2 as stated: after a valid create-table event (ignore_ddl unset) the list
\* held for the table equals the declared primary-key array.
C2_ListEqualsDeclared ==
    (Returned("CREATE") /\ NoDuplicates(event.primary_key)) => keys_held = event.primary_key

\* C2 amended: a create-table event (ignore_ddl unset) leaves the list held
\* before it in place and appends the declared keys the list did not hold, each
\* once, in the order of their first declaration; so the list equals the
\* declared array when it was empty before and the array names no key twice,
\* and processing the same event again changes nothing.
C2_CreateAppendsDeclared ==
    [][ (outcome'.kind = "SQLOperation" /\ outcome'.verb = "CREATE") =>
          LET a == address_of(event')
              before == StoreGet(primary_keys, a, <<>>)
              after == primary_keys'[a]
              declared == event'.primary_key
              added == SubSeq(after, Len(before) + 1, Len(after))
          IN  /\ IsPrefix(before, after)
              /\ NoDuplicates(added)
              /\ Range(added) = Range(declared) \ Range(before)
              /\ \A i, j \in 1..Len(added) :
                    i < j => FirstIndex(declared, added[i]) < FirstIndex(declared, added[j])
              /\ (before = <<>> /\ NoDuplicates(declared)) => after = declared
              /\ (event_in' = event_in /\ Returned("CREATE")) => after = before
      ]_vars

\* a create-table event was processed on a list that already held another key
C2_Witness ==
    /\ Returned("CREATE")
    /\ event.primary_key = <<"name", "id">>
    /\ keys_held = <<"id", "name">>

-----------------------------------------------------------------------------
(* C3 *)

\* C3 as stated: with no primary key known for the table, every load, insert,
\* update and delete event fails with the precondition error.
C3_EveryDataEventFails ==
    (Dispatched /\ event.operation \in DataOperations /\ keys_held = <<>>) =>
        (outcome.kind = "ValueError" /\ outcome.message = NoPrimaryKeys)

\* C3 amended: with no primary key known for the table when the operation is
\* dispatched, update and delete return no SQL operation: delete fails with the
\* precondition error, and so does update unless decoding its data fails
\* first; load and insert do not need a key and return an INSERT (unless
\* decoding their data fails).
C3_UpdateDeleteNeedKeys ==
    (Dispatched /\ keys_held = <<>>) =>
        /\ event.operation = "delete" =>
              (outcome.kind = "ValueError" /\ outcome.message = NoPrimaryKeys)
        /\ event.operation = "update" =>
              \/ outcome.kind = "ValueError" /\ outcome.message = NoPrimaryKeys
              \/ outcome.kind = "JSONDecodeError"
        /\ event.operation \in {"load", "insert"} =>
              \/ Returned("INSERT")
              \/ outcome.kind = "JSONDecodeError"

\* an update for a table without keys was refused
C3_Witness ==
    /\ event.operation = "update"
    /\ event.data # <<>>
    /\ keys_held = <<>>
    /\ outcome.kind = "ValueError"

-----------------------------------------------------------------------------
(* C4 *)

\* C4: in every UPDATE the translator returns, under either strategy, no
\* column of the table's primary-key list is assigned in the SET clause, and
\* every other column of the event's data is assigned there exactly once.
C4_SetClauseSkipsKeys ==
    Returned("UPDATE") =>
        /\ \A i \in 1..Len(event.data) :
              LET column == event.data[i][1]
                  assignment == set_lval(strategy_used, column) \o "=:" \o column
              IN  /\ Occurrences(SetText(outcome.statement), assignment)
                        = IF column \in Range(keys_held) THEN 0 ELSE 1
                  /\ Cardinality({j \in 1..Len(outcome.set_clause.lvals) :
                                    outcome.set_clause.lvals[j] = set_lval(strategy_used, column)})
                        = IF column \in Range(keys_held) THEN 0 ELSE 1
        /\ Len(outcome.set_clause.lvals)
              = Cardinality({i \in 1..Len(event.data) : event.data[i][1] \notin Range(keys_held)})

\* an UPDATE for data holding a key column and another column
C4_Witness ==
    /\ Returned("UPDATE")
    /\ keys_held = <<"id">>
    /\ DictHas(event.data, "id")
    /\ DictHas(event.data, "attributes")

-----------------------------------------------------------------------------
(* C5 *)

\* C5: every UPDATE and DELETE the translator returns has a WHERE clause with
\* exactly one equality predicate per column of the table's primary-key list,
\* bound by name to that column's value in the event data; the WHERE clause is
\* never empty, also when the data lacks a key column or holds null for it.
C5_WherePerKeyColumn ==
    (Returned("UPDATE") \/ Returned("DELETE")) =>
        /\ WhereText(outcome.statement) # ""
        /\ Len(outcome.where_clause.lvals) = Len(keys_held)
        /\ \A i \in 1..Len(keys_held) :
              /\ outcome.where_clause.lvals[i] = where_lval(strategy_used, keys_held[i])
              /\ outcome.where_clause.rvals[i] = ":" \o keys_held[i]
              /\ DictHas(outcome.parameters, keys_held[i])

-----------------------------------------------------------------------------
(* C6 *)

\* C6: with ignore_ddl set for a table address, every create-table and
\* drop-table event for the address raises SkipOperation instead of returning
\* a statement, and the primary-key list and the column-type map of the address
\* are after the event what they were before it (an address without an entry
\* holds the empty list and the empty map).
C6_IgnoredDdlSkips ==
    [][ LET a == address_of(event')
        IN  (/\ outcome'.kind \notin {"NoCall", "MessageFormatError"}
             /\ event'.operation \in {"create-table", "drop-table"}
             /\ StoreGet(ignore_ddl, a, FALSE)) =>
                /\ outcome'.kind = "SkipOperation"
                /\ outcome'.statement = ""
                /\ StoreGet(primary_keys', a, <<>>) = StoreGet(primary_keys, a, <<>>)
                /\ StoreGet(column_types', a, <<>>) = StoreGet(column_types, a, <<>>)
                /\ primary_keys_caller' = primary_keys_caller
      ]_vars

\* a create-table event that declares a key was skipped and taught nothing
C6_Witness ==
    /\ outcome.kind = "SkipOperation"
    /\ event.operation = "create-table"
    /\ event.primary_key = <<"name">>
    /\ "name" \notin Range(keys_held)

-----------------------------------------------------------------------------
(* C7 *)

StatementOf(operation) ==
    CASE operation = "create-table" -> [text |-> "CREATE TABLE IF NOT EXISTS ", verb |-> "CREATE"]
      [] operation = "drop-table" -> [text |-> "DROP TABLE IF EXISTS ", verb |-> "DROP"]
      [] operation = "load" -> [text |-> "INSERT INTO ", verb |-> "INSERT"]
      [] operation = "insert" -> [text |-> "INSERT INTO ", verb |-> "INSERT"]
      [] operation = "update" -> [text |-> "UPDATE ", verb |-> "UPDATE"]
      [] operation = "delete" -> [text |-> "DELETE FROM ", verb |-> "DELETE"]
      [] OTHER -> [text |-> "", verb |-> ""]

KnownOperations == {"create-table", "drop-table", "load", "insert", "update", "delete"}

-----------------------------------------------------------------------------
(* C8 *)

Missing(s) == s = None \/ s = ""

\* C8 as stated: an event with missing metadata, a missing operation kind, or
\* a missing or empty schema name or table name is rejected with a
\* message-format error.
C8_MalformedRejected ==
    (/\ outcome.kind # "NoCall"
     /\ \/ ~event_in.has_metadata
        \/ Missing(event_in.operation)
        \/ Missing(event_in.schema)
        \/ Missing(event_in.table)) =>
        outcome.kind = "MessageFormatError"

\* C8 amended: an event with missing metadata, a missing operation kind, a
\* missing or empty table name, or a missing or empty schema name for a table
\* whose name does not begin with awsdms_, is rejected with a message-format
\* error before any operation is dispatched, and the schema store is after the
\* call what it was before.
C8_MalformedRejectedUnlessDiverted ==
    [][ (\/ ~event_in'.has_metadata
         \/ Missing(event_in'.operation)
         \/ Missing(event_in'.table)
         \/ Missing(event_in'.schema) /\ ~startswith(event_in'.table, "awsdms_")) =>
            /\ outcome'.kind = "MessageFormatError"
            /\ outcome'.statement = ""
            /\ dms_store' = dms_store
      ]_vars

\* an event without schema name was rejected after a key had been learned
C8_Witness ==
    /\ outcome.kind = "MessageFormatError"
    /\ event_in.operation = "insert"
    /\ event_in.schema = None
    /\ event_in.table = "foo"
    /\ Foo \in DOMAIN primary_keys
    /\ primary_keys[Foo] # <<>>

-----------------------------------------------------------------------------
(* C10 *)

\* C10: a to_sql call leaves the event it was passed as it was: metadata, data
\* and the other sections are the same after the call as before it.
C10_EventUntouched == outcome.kind # "NoCall" => event = event_in

-----------------------------------------------------------------------------
(* C9 *)

\* C9: every INSERT returned for a DynamoDB CDC INSERT event (as every INSERT
\* returned for a DMS UNIVERSAL load or insert event) carries ON CONFLICT DO
\* NOTHING, so that executing it twice against a sink keyed by the primary key
\* raises no duplicate-key error.
C9_InsertOnConflictDoNothing ==
    (ddb_outcome.kind = "SQLOperation" /\ ddb_outcome.verb = "INSERT") =>
        Occurrences(ddb_outcome.statement, "ON CONFLICT DO NOTHING") = 1

-----------------------------------------------------------------------------
(* C11 *)

\* the entry of address a is the same in store function f and in g
SameEntry(f, g, a) == (a \in DOMAIN f <=> a \in DOMAIN g) /\ (a \in DOMAIN f => f[a] = g[a])

\* C11: for an event whose table name begins with awsdms_, whatever schema
\* name it declares (none and the empty one included): the schema name causes
\* no message-format error, a returned statement targets dms.<table>, the
\* keys of its WHERE clause are those held for ("dms", table), a delete fails
\* for want of keys exactly when none is held for ("dms", table), and the
\* store entries of every other address are after the call what they were
\* before.
C11_AwsdmsDivertedToDms ==
    [][ (/\ event_in'.has_metadata
         /\ truthy(event_in'.table)
         /\ startswith(event_in'.table, "awsdms_")) =>
            LET target == TableAddress("dms", event_in'.table)
                held == StoreGet(primary_keys, target, <<>>)
                others == UNION { DOMAIN primary_keys, DOMAIN primary_keys',
                                  DOMAIN column_types, DOMAIN column_types',
                                  DOMAIN ignore_ddl, DOMAIN ignore_ddl' } \ {target}
            IN  /\ outcome'.kind = "MessageFormatError" => Missing(event_in'.operation)
                /\ outcome'.kind = "SQLOperation" =>
                      startswith(outcome'.statement,
                                 StatementOf(event_in'.operation).text
                                     \o "dms." \o event_in'.table)
                /\ outcome'.kind = "SQLOperation" /\ outcome'.verb \in {"UPDATE", "DELETE"} =>
                      \A i \in 1..Len(outcome'.where_clause.values) :
                          outcome'.where_clause.values[i][1] \in Range(held)
                /\ event_in'.operation = "delete" =>
                      (outcome'.message = NoPrimaryKeys <=> held = <<>>)
                /\ \A a \in others :
                      /\ SameEntry(primary_keys, primary_keys', a)
                      /\ SameEntry(column_types, column_types', a)
                      /\ SameEntry(ignore_ddl, ignore_ddl', a)
                      /\ SameEntry(primary_keys_caller, primary_keys_caller', a)
                      /\ SameEntry(column_types_caller, column_types_caller', a)
      ]_vars

\* a delete event declaring the empty schema name returned a DELETE on
\* dms.awsdms_apply_exceptions while public.foo held keys of its own
C11_Witness ==
    /\ Returned("DELETE")
    /\ event_in.schema = ""
    /\ event_in.table = AwsdmsTable
    /\ outcome.where_clause.values # <<>>
    /\ Foo \in DOMAIN primary_keys
    /\ primary_keys[Foo] # <<>>

-----------------------------------------------------------------------------
(* C12 *)

\* the operationType of the last event the MongoDB translator was passed
\* ("" when the event has none or a falsy one)
mdb_kind ==
    IF mdb_event_in.operationType.t # "absent" /\ py_truthy(mdb_event_in.operationType)
    THEN py_str(mdb_event_in.operationType)
    ELSE ""

mdb_called == mdb_outcome.kind # "NoCall"

\* C12: for every event whose operationType is drop or invalidate, whatever
\* its documentKey and fullDocument, to_sql returns None: it raises nothing
\* and returns no statement.
C12_DropInvalidateReturnNone ==
    (mdb_called /\ mdb_kind \in {"drop", "invalidate"}) =>
        /\ mdb_outcome.kind = "None"
        /\ mdb_outcome.statement = ""
        /\ mdb_outcome.message = ""

\* a drop event whose documentKey is not even a dict was answered with None
C12_Witness ==
    /\ mdb_outcome.kind = "None"
    /\ mdb_kind = "drop"
    /\ mdb_event_in.documentKey = PyNone
    /\ mdb_event_in.fullDocument # Absent

-----------------------------------------------------------------------------
(* C13 *)

\* the document id of the last event: the text of documentKey._id
mdb_document_id ==
    IF mdb_event_in.documentKey.t = "dict"
    THEN py_str(DictGet(mdb_event_in.documentKey.v, "_id", PyNone))
    ELSE "None"

\* the documentKey of the last event, when there is one, is a document
mdb_key_is_document == mdb_event_in.documentKey.t \in {"absent", "dict"}

\* the decoded full document of the last event
mdb_record == decode_document(get_full_document(mdb_event_in))

-----------------------------------------------------------------------------
(* C14 *)

\* C14: in every INSERT, UPDATE and DELETE the MongoDB translator returns,
\* the document id (the oid parameter of the INSERT, the oid literal of the
\* WHERE clause of UPDATE and DELETE) is the text of the event's
\* documentKey._id, whatever _id the fullDocument holds.
C14_IdFromDocumentKey ==
    mdb_outcome.kind = "SQLOperation" =>
        /\ mdb_outcome.verb = "INSERT" =>
              DictGet(mdb_outcome.parameters, "oid", PyNone) = PyStr(mdb_document_id)
        /\ mdb_outcome.verb \in {"UPDATE", "DELETE"} =>
              TextAfter(mdb_outcome.statement, " WHERE ")
                  = "oid = '" \o mdb_document_id \o "';"

\* an UPDATE was keyed by the ObjectId of documentKey while the fullDocument
\* held another _id
C14_Witness ==
    /\ mdb_outcome.kind = "SQLOperation"
    /\ mdb_outcome.verb = "UPDATE"
    /\ mdb_event_in.documentKey = PyMap(<< <<"_id", ObjectId(OidA)>> >>)
    /\ mdb_event_in.fullDocument.t = "dict"
    /\ DictGet(mdb_event_in.fullDocument.v, "_id", PyNone) = ObjectId(OidB)
    /\ Occurrences(mdb_outcome.statement, OidA) = 1
    /\ Occurrences(mdb_outcome.statement, OidB) = 0

-----------------------------------------------------------------------------
(* C15 *)

\* C15: the UPDATE returned for a DynamoDB CDC MODIFY event sets the typed and
\* the untyped column each to a whole object and matches on the whole key
\* object; the DELETE returned for a REMOVE event matches on the whole key
\* object; neither carries a SET or WHERE entry for a single field.
C15_WholeObjectUpdateDelete ==
    ddb_outcome.kind = "SQLOperation" =>
        /\ ddb_event_in.eventName = "MODIFY" =>
              /\ ddb_outcome.statement =
                    "UPDATE " \o ddb_table_name \o " SET " \o TYPED_COLUMN \o "=:typed, "
                    \o UNTYPED_COLUMN \o "=:untyped WHERE pk=:pk;"
              /\ ddb_outcome.set_clause.lvals = <<>>
              /\ ddb_outcome.where_clause.lvals = <<>>
        /\ ddb_event_in.eventName = "REMOVE" =>
              /\ ddb_outcome.statement = "DELETE FROM " \o ddb_table_name \o " WHERE pk=:pk;"
              /\ ddb_outcome.where_clause.lvals = <<>>

-----------------------------------------------------------------------------
(* C16 *)

\* the wire type tags of the elements of a wire list
ElementTags(wire) == { wire.val[i].tag : i \in 1..Len(wire.val) }

\* the object an INSERT binds to parameter name
ddb_parameter(name) == DictGet(ddb_outcome.parameters, name, PyNone).v

\* C16: of a decoded DynamoDB record, a top-level field holding a wire list
\* is in typed (and not in untyped) when its elements carry at most one wire
\* type tag, the empty list included, and in untyped (and not in typed) when
\* they carry two or more; lists nested in its elements play no part.
C16_ListPlacedByElementTags ==
    (ddb_outcome.kind = "SQLOperation" /\ ddb_outcome.verb = "INSERT") =>
        \A i \in 1..Len(ddb_event_in.NewImage) :
            LET field == ddb_event_in.NewImage[i][1]
                wire == ddb_event_in.NewImage[i][2]
            IN  wire.tag = "L" =>
                    IF Cardinality(ElementTags(wire)) <= 1
                    THEN /\ DictHas(ddb_parameter("typed"), field)
                         /\ ~DictHas(ddb_parameter("untyped"), field)
                    ELSE /\ DictHas(ddb_parameter("untyped"), field)
                         /\ ~DictHas(ddb_parameter("typed"), field)

\* an INSERT held a list of two lists, each nesting a string and a number,
\* in typed
C16_Witness ==
    /\ ddb_outcome.kind = "SQLOperation"
    /\ ddb_outcome.verb = "INSERT"
    /\ \E i \in 1..Len(ddb_event_in.NewImage) :
          LET wire == ddb_event_in.NewImage[i][2]
          IN  /\ wire.tag = "L"
              /\ Len(wire.val) = 2
              /\ ElementTags(wire) = {"L"}
              /\ DictHas(ddb_parameter("typed"), ddb_event_in.NewImage[i][1])

-----------------------------------------------------------------------------
(* C17 *)

DynamoDBSetTypes == {"NS", "SS", "BS"}

\* C17: of a decoded DynamoDB record, a top-level field holding a number
\* set, string set or binary set becomes a list with one item for each
\* element of the wire value (as many items as the wire set has elements),
\* and decoding the same event again in the same process gives the same
\* lists.
C17_SetsKeepEveryElement ==
    [][ (ddb_outcome'.kind = "SQLOperation" /\ ddb_outcome'.verb = "INSERT") =>
            /\ \A i \in 1..Len(ddb_event_in'.NewImage) :
                  LET field == ddb_event_in'.NewImage[i][1]
                      wire == ddb_event_in'.NewImage[i][2]
                      typed == DictGet(ddb_outcome'.parameters, "typed", PyNone).v
                  IN  wire.tag \in DynamoDBSetTypes =>
                          /\ DictHas(typed, field)
                          /\ Len(DictGet(typed, field, PyNone).v) = Cardinality(Range(wire.val))
            /\ ddb_event_in' = ddb_event_in => ddb_outcome' = ddb_outcome
      ]_vars

-----------------------------------------------------------------------------
(* C18 *)

\* C18: reading sql_ddl of a DynamoDB full-load translator constructed without
\* a key schema raises the configuration error and yields no statement; a
\* translator is constructed from a key schema, and reading its sql_ddl yields
\* a CREATE TABLE IF NOT EXISTS whose pk object declares every key column
\* with PRIMARY KEY.
C18_SqlDdlNeedsKeySchema ==
    /\ ddb_key_schema.passed => ddb_translator.kind = "DynamoDBFullLoadTranslator"
    /\ ddb_ddl_outcome.kind # "NoCall" =>
          IF ~ddb_key_schema.passed
          THEN /\ ddb_ddl_outcome.kind = "OSError"
               /\ ddb_ddl_outcome.message = "Unable to generate SQL DDL without key schema information"
               /\ ddb_ddl_outcome.statement = ""
          ELSE /\ ddb_ddl_outcome.kind = "str"
               /\ startswith(ddb_ddl_outcome.statement,
                             "CREATE TABLE IF NOT EXISTS " \o ddb_table_name \o " (pk OBJECT(STRICT)")
               /\ \A clause \in Range(to_sql_ddl_clauses(ddb_key_schema.attributes)) :
                     Occurrences(ddb_ddl_outcome.statement, clause) = 1

-----------------------------------------------------------------------------
(* C19 *)

FieldsOf(d) == Range(DictKeys(d))

\* the field names of a record whose value is a list tagged as varied
VariedFields(record) ==
    { item[1] : item \in { x \in Range(record) : x[2].t = "TaggableList" /\ x[2].varied } }

\* C19: from_record(record, keys) partitions the record: pk, typed and untyped
\* have pairwise disjoint field sets, every field of the record is in exactly
\* one of them with the value it had, pk holds exactly the fields named as
\* keys, untyped exactly the other fields holding a varied list, and typed
\* the rest.
C19_SplitIsPartition ==
    cm_call = "from_record" =>
        LET pk == ur_result.pk
            typed == ur_result.typed
            untyped == ur_result.untyped
            named == FieldsOf(ur_record) \cap Range(ur_keys)
        IN  /\ FieldsOf(pk) \cap FieldsOf(typed) = {}
            /\ FieldsOf(pk) \cap FieldsOf(untyped) = {}
            /\ FieldsOf(typed) \cap FieldsOf(untyped) = {}
            /\ Len(pk) + Len(typed) + Len(untyped) = Len(ur_record)
            /\ Range(pk) \cup Range(typed) \cup Range(untyped) = Range(ur_record)
            /\ FieldsOf(pk) = named
            /\ FieldsOf(untyped) = VariedFields(ur_record) \ named
            /\ FieldsOf(typed) = FieldsOf(ur_record) \ (named \cup VariedFields(ur_record))

-----------------------------------------------------------------------------
(* C20 *)

\* dict equality: the same keys with the same values, in whatever order
dict_eq(a, b) ==
    /\ Range(DictKeys(a)) = Range(DictKeys(b))
    /\ \A k \in Range(DictKeys(a)) : DictGet(a, k, "") = DictGet(b, k, "")

\* store equality: the same table addresses, each with an equal column dict
store_eq(a, b) ==
    /\ Range(DictKeys(a)) = Range(DictKeys(b))
    /\ \A k \in Range(DictKeys(a)) : dict_eq(DictGet(a, k, <<>>), DictGet(b, k, <<>>))

\* C20: from_json applied to what to_json returned for a non-empty store
\* returns a store equal to it, every table address with its column-to-type
\* map; from_json("") and from_json(None) and from_dict(None) return None.
C20_JsonRoundTrip ==
    /\ (/\ cm_call = "from_json"
        /\ ctms_store # <<>>
        /\ ctms_argument = PyStr(ctms_to_json(ctms_store))) =>
            /\ ctms_result.kind = "ColumnTypeMapStore"
            /\ store_eq(ctms_result.parameters, ctms_store)
    /\ (cm_call = "from_json" /\ ctms_argument \in {PyStr(""), PyNone}) =>
            ctms_result.kind = "None"
    /\ (cm_call = "from_dict" /\ ctms_argument = PyNone) =>
            ctms_result.kind = "None"

-----------------------------------------------------------------------------
(* C21 *)

\* text s holds the text sub
Holds(s, sub) == \E i \in 1..(Len(s) - Len(sub) + 1) : SubSeq(s, i, i + Len(sub) - 1) = sub

\* C21: reading fqn of a TableAddress whose schema is None or empty raises the
\* configuration error, and no statement the DMS translator returns names
\* its table as None.<table> or as .<table>.
C21_NoFqnWithoutSchema ==
    /\ (cm_call = "fqn" /\ ~truthy(fqn_address[1])) =>
          /\ fqn_outcome.kind = "ValueError"
          /\ fqn_outcome.message = "Unable to compute a full-qualified table name without schema name"
          /\ fqn_outcome.statement = ""
    /\ outcome.kind = "SQLOperation" =>
          /\ ~Holds(outcome.statement, " None." \o event_in.table)
          /\ ~Holds(outcome.statement, " ." \o event_in.table)
          /\ Holds(outcome.statement, " " \o event.schema \o "." \o event.table)

\* fqn of an address without schema raised, and the translator returned a
\* statement for an event that declared the empty schema name
C21_Witness ==
    /\ cm_call = "fqn"
    /\ fqn_address = TableAddress("", "foo")
    /\ fqn_outcome.kind = "ValueError"
    /\ outcome.kind = "SQLOperation"
    /\ event_in.schema = ""
    /\ Holds(outcome.statement, " dms." \o AwsdmsTable)

-----------------------------------------------------------------------------
(* C22 *)

\* C22: the schema store is not locked.  Two to_sql calls for one table
\* address on one translator can interleave so that both find a declared key
\* missing before either appends it, and the list then holds the key twice;
\* unless a call began while another was under way, no list of the store ever
\* holds a key twice.
C22_DuplicateKeyOnlyWhenOverlapped ==
    (\E a \in DOMAIN primary_keys : ~NoDuplicates(primary_keys[a])) => overlapped

\* both calls found "id" missing, both appended it
C22_Witness ==
    /\ overlapped
    /\ Foo \in DOMAIN primary_keys
    /\ primary_keys[Foo] = <<"id", "id">>
    /\ \A thread \in Threads : threads[thread].pc = "idle"

-----------------------------------------------------------------------------
(* C23 *)

\* the values an operation binds under a column name
bound(name) ==
    LET parts == IF outcome.verb = "INSERT" /\ strategy_used = "UNIVERSAL"
                 THEN outcome.parameters.pk \o outcome.parameters.typed
                      \o outcome.parameters.untyped
                 ELSE outcome.parameters
    IN  { parts[i][2] : i \in { j \in 1..Len(parts) : parts[j][1] = name } }

\* what decode_data is to make of a column's value
decoded_value(name, value) ==
    IF DictHas(types_held, name) /\ DictGet(types_held, name, "") \in {"MAP", "OBJECT"}
       /\ value.t = "str"
    THEN json_loads(value.v).value
    ELSE value

\* C23: in the operation returned for a load, insert or update event, a column
\* declared MAP or OBJECT that carries a string is bound as the parsed JSON
\* value of the string, and every other column is bound with the value the
\* event carries.  Load and insert bind every column of the event, update
\* every column outside the primary key.
C23_DeclaredObjectsParsed ==
    (outcome.kind = "SQLOperation" /\ event_in.operation \in {"load", "insert", "update"}) =>
        \A i \in 1..Len(event_in.data) :
            LET name == event_in.data[i][1]
                value == event_in.data[i][2]
            IN  /\ bound(name) \subseteq {decoded_value(name, value)}
                /\ DictGet(event.data, name, Absent) = decoded_value(name, value)
                /\ (outcome.verb = "INSERT" \/ name \notin Range(keys_held)) => bound(name) # {}

\* an update of public.foo, whose column attributes is declared OBJECT, binds
\* the parsed object for the JSON string and the integer 42 as it came
C23_Witness ==
    /\ Returned("UPDATE")
    /\ event_in.operation = "update"
    /\ DictGet(types_held, "attributes", "") = "OBJECT"
    /\ DictGet(event_in.data, "attributes", Absent) = PyStr(JsonText)
    /\ bound("attributes") = {PyDict("{'foo': 'bar'}")}
    /\ bound("id") = {PyInt("42")}

-----------------------------------------------------------------------------
(* C24 *)

C24_WitnessIso ==
    /\ cv_value = ExtendedDate(PyStr("2015-09-23T10:32:42.987456Z"))
    /\ cv_result = PyInt("1443004362000")

-----------------------------------------------------------------------------
(* C25 *)

\* C25: executing, in order, the statements emitted for the insert, update and
\* delete events of one table on a sink table keyed by the primary key leaves
\* the sink holding the rows of the source table; an update that changes the
\* key of a row moves the row of the sink to the new key.
C25_SinkHoldsSourceRows == sink_rows = source_rows

\* the source changed the key of a row, and the sink still holds the row under
\* the old key
C25_KeyChangeLost ==
    /\ before_image # <<>>
    /\ Returned("UPDATE")
    /\ \E row \in sink_rows : row_key(row, <<"id">>) = <<before_image[1][2]>>
    /\ \A row \in source_rows : row_key(row, <<"id">>) # <<before_image[1][2]>>

-----------------------------------------------------------------------------
(* C26 *)

\* C26: the baseline of the schema store taken when the translator was
\* constructed (primary_keys_caller, column_types_caller) is never changed: in
\* every reachable state it equals what the caller supplied, also after a
\* drop-table followed by a create-table that declares further keys.
C26_BaselineNeverChanges ==
    /\ primary_keys_caller = primary_keys_supplied
    /\ column_types_caller = column_types_supplied

\* a create-table event after a drop-table wrote a declared key into the
\* baseline
C26_BaselineGrew ==
    /\ Returned("CREATE")
    /\ Foo \in DOMAIN primary_keys_supplied
    /\ primary_keys_supplied[Foo] = <<"id">>
    /\ primary_keys_caller[Foo] = <<"id", "name">>
    /\ column_types_caller = column_types_supplied

-----------------------------------------------------------------------------
(* C27 *)

\* C27: the translator changes the primary-key list of a table only on
\* create-table and drop-table events: a load, insert, update or delete event,
\* and an event rejected with an unknown-operation error, leaves the list held
\* for its table as it was before the call (an absent entry counting as the
\* empty list), also when the event carries a table-def with a primary-key
\* array.
C27_DataEventsKeepKeys ==
    [][ (/\ event_in'.has_metadata
         /\ \/ event_in'.operation \in DataOperations
            \/ outcome'.kind = "UnknownOperationError") =>
            LET target == TableAddress(event'.schema, event'.table)
            IN  StoreGet(primary_keys', target, <<>>) = StoreGet(primary_keys, target, <<>>)
      ]_vars

\* an insert event carrying a table-def left a key in the list of public.foo
\* that no create-table event declared
C27_KeyLearnedFromInsert ==
    /\ Returned("INSERT")
    /\ event_in.operation = "insert"
    /\ event_in.has_table_def
    /\ event_in.primary_key = <<"id">>
    /\ primary_keys_supplied = <<>>
    /\ primary_keys[Foo] = <<"id">>

-----------------------------------------------------------------------------
(* C28 *)

\* C28: processing an event for table address A leaves the primary-key list
\* and the column-type map held for every other address B as they were, in
\* the store and in its baseline: also on a drop-table of A when A and B were
\* both seeded by the caller, and for events diverted to the dms schema.
C28_OtherTablesUntouched ==
    [][ LET target == TableAddress(event'.schema, event'.table)
            others == UNION { DOMAIN primary_keys, DOMAIN primary_keys',
                              DOMAIN column_types, DOMAIN column_types',
                              DOMAIN primary_keys_caller, DOMAIN primary_keys_caller',
                              DOMAIN column_types_caller, DOMAIN column_types_caller' }
                      \ {target}
        IN  \A b \in others :
                /\ SameEntry(primary_keys, primary_keys', b)
                /\ SameEntry(column_types, column_types', b)
                /\ SameEntry(primary_keys_caller, primary_keys_caller', b)
                /\ SameEntry(column_types_caller, column_types_caller', b)
                /\ (b \in pk_shared <=> b \in pk_shared')
      ]_vars

\* a drop-table of public.foo was processed after the caller seeded public.foo
\* and dms.awsdms_apply_exceptions, and the keys of the latter are held as
\* seeded while those of public.foo were reset
C28_Witness ==
    /\ Returned("DROP")
    /\ event_in.table = "foo"
    /\ Foo \in DOMAIN primary_keys_supplied
    /\ Awsdms \in DOMAIN primary_keys_supplied
    /\ Awsdms \in DOMAIN column_types_supplied
    /\ primary_keys[Awsdms] = <<"id">>
    /\ column_types[Awsdms] = << <<"attributes", "OBJECT">> >>
    /\ Foo \in pk_shared
    /\ Awsdms \notin pk_shared

-----------------------------------------------------------------------------
(* C29 *)

\* C29: passing the same event to the same translator twice in a row gives
\* the same outcome both times: when the first call returned an SQLOperation,
\* the second returns an equal one and raises nothing.
C29_SecondCallSameOutcome ==
    ddb_outcome_first.kind = "SQLOperation" => ddb_outcome = ddb_outcome_first

\* the first call returned an UPDATE for a MODIFY event, the second call with
\* the same event raised KeyError
C29_SecondCallRaised ==
    /\ ddb_outcome_first.kind = "SQLOperation"
    /\ ddb_outcome_first.verb = "UPDATE"
    /\ ddb_event_in.eventName = "MODIFY"
    /\ ddb_outcome.kind = "KeyError"

-----------------------------------------------------------------------------
(* C30 *)

\* whether the event passed last carries a documentKey holding an _id
mdb_has_document_id ==
    /\ mdb_event_in.documentKey.t = "dict"
    /\ DictHas(mdb_event_in.documentKey.v, "_id")

\* C30: the MongoDB translator returns no UPDATE and no DELETE for an update,
\* replace or delete event that carries no documentKey or no documentKey._id:
\* the call fails with an error, and no statement has a WHERE clause keyed by
\* the text 'None'.
C30_NoStatementWithoutDocumentKey ==
    (/\ mdb_called
     /\ mdb_event_in.operationType \in {PyStr("update"), PyStr("replace"), PyStr("delete")}
     /\ ~mdb_has_document_id) =>
        /\ mdb_outcome.kind \notin {"SQLOperation", "None"}
        /\ ~Holds(mdb_outcome.statement, "oid = 'None'")

\* a delete event without documentKey was answered by a DELETE keyed by 'None'
C30_DeleteKeyedByNone ==
    /\ mdb_event_in.operationType = PyStr("delete")
    /\ mdb_event_in.documentKey = Absent
    /\ mdb_outcome.kind = "SQLOperation"
    /\ mdb_outcome.statement = "DELETE FROM foo WHERE oid = 'None';"

====
